---- MODULE Spec2Model ----
(***************************************************************************)
(* Model of scripts/greenhouse_import.py: the enrichment orchestrator      *)
(* (process_greenhouse_jobs) and the persistence layer                     *)
(* (delete_company_data, import_to_db) as driven by main().                *)
(*                                                                         *)
(* Tables are sets of rows carrying their own rowid, so that a duplicate   *)
(* row is a distinct row.  A connection works on a private copy of the     *)
(* store (conn) that replaces the committed store (db) at commit.          *)
(***************************************************************************)
EXTENDS Integers, Sequences, FiniteSets, TLC

VARIABLES db, conn, pc, run, clock, runs, pre, outcomes, ret, fin, fout

vars == <<db, conn, pc, run, clock, runs, pre, outcomes, ret, fin, fout>>

\* The persistent store and the run in progress.
storeVars == <<db, conn, pc, run, clock, runs, pre, outcomes, ret>>

\* The argument and the result of a function applied on its own.
fnVars == <<fin, fout>>

\* ---------------------------------------------------------------- bounds
MaxRuns == 3
MaxRawBatch == 3

\* ------------------------------------------------------------- constants
NULL == "None"
NONE_TAG == "_none"
SOURCE == "greenhouse"

\* ------------------------------------------------------ string utilities
\* Company names are sequences of characters so that lower() and strip()
\* are computed, not assumed.
LowerChar(c) ==
    CASE c = "A" -> "a"
      [] c = "B" -> "b"
      [] c = "X" -> "x"
      [] OTHER -> c

Lower(s) == [i \in 1..Len(s) |-> LowerChar(s[i])]

RECURSIVE LStrip(_)
LStrip(s) == IF s # <<>> /\ Head(s) = " " THEN LStrip(Tail(s)) ELSE s

RECURSIVE RStrip(_)
RStrip(s) ==
    IF s # <<>> /\ s[Len(s)] = " " THEN RStrip(SubSeq(s, 1, Len(s) - 1)) ELSE s

Strip(s) == RStrip(LStrip(s))

\* company_name.lower().strip()
Normalize(name) == Strip(Lower(name))

\* Words of a text are lower-cased one by one.
LowerWord(w) ==
    CASE w = "Urgent" -> "urgent"
      [] w = "Python" -> "python"
      [] w = "Engineer" -> "engineer"
      [] w = "Senior" -> "senior"
      [] w \in {"Remote", "REMOTE"} -> "remote"
      [] w = "US" -> "us"
      [] w = "Anywhere" -> "anywhere"
      [] w = "New" -> "new"
      [] w = "York" -> "york"
      [] w = "NY" -> "ny"
      [] w = "Austin" -> "austin"
      [] w = "Berlin" -> "berlin"
      [] w = "CA" -> "ca"
      [] w = "Director" -> "director"
      [] w = "Manager" -> "manager"
      [] w = "Staff" -> "staff"
      [] w = "Sr" -> "sr"
      [] w = "Head" -> "head"
      [] w = "Vice" -> "vice"
      [] w = "President" -> "president"
      [] w = "VP" -> "vp"
      [] w = "Chief" -> "chief"
      [] w = "Associate" -> "associate"
      [] w = "Intern" -> "intern"
      [] w = "Co" -> "co"
      [] w = "Software" -> "software"
      [] w = "Sales" -> "sales"
      [] w = "Data" -> "data"
      [] w = "Scientist" -> "scientist"
      [] w = "Product" -> "product"
      [] w = "Designer" -> "designer"
      [] w = "Confidential" -> "confidential"
      [] w = "Engineering" -> "engineering"
      [] w = "Marketing" -> "marketing"
      [] w = "Growth" -> "growth"
      [] w \in {"AI", "Ai"} -> "ai"
      [] w = "ML" -> "ml"
      [] w = "Machine" -> "machine"
      [] w = "Learning" -> "learning"
      [] w = "LLM" -> "llm"
      [] w = "Native" -> "native"
      [] w = "Prompt" -> "prompt"
      [] OTHER -> w

LowerText(t) == [i \in 1..Len(t) |-> LowerWord(t[i])]

\* str(job["id"])
Str(n) ==
    CASE n = 1 -> "1"
      [] n = 2 -> "2"
      [] OTHER -> "0"

SetMax(S) == IF S = {} THEN 0 ELSE CHOOSE m \in S : \A x \in S : x <= m

\* ------------------------------------------------------------ enrichment
\* A raw posting is a JSON object: a key may be absent (MISSING), null
\* (JNULL) or carry a value.  Texts are sequences of words.
MISSING == [kind |-> "missing"]
JNULL == [kind |-> "null"]
Text(words) == [kind |-> "text", words |-> words]
Chars(chars) == [kind |-> "str", chars |-> chars]
Num(val) == [kind |-> "int", val |-> val]
Iso(day, hour, off) == [kind |-> "iso", day |-> day, hour |-> hour, off |-> off]

HtmlBreak == {"<br>", "<p>"}
HtmlItem == {"<li>"}
HtmlTag == {"</p>", "</li>", "<b>"}

RECURSIVE SubstituteTags(_)
SubstituteTags(t) ==
    IF t = <<>> THEN <<>>
    ELSE LET h == Head(t)
             r == SubstituteTags(Tail(t))
         IN  CASE h \in HtmlBreak -> <<"\n">> \o r
               [] h \in HtmlItem -> <<"\n", "*">> \o r
               [] h \in HtmlTag -> r
               [] h = "&amp;" -> <<"&">> \o r
               [] OTHER -> <<h>> \o r

\* re.sub(r"\n{3,}", "\n\n", text)
RECURSIVE CollapseNewlines(_)
CollapseNewlines(t) ==
    IF Len(t) >= 3 /\ t[1] = "\n" /\ t[2] = "\n" /\ t[3] = "\n"
    THEN CollapseNewlines(Tail(t))
    ELSE IF t = <<>> THEN <<>> ELSE <<Head(t)>> \o CollapseNewlines(Tail(t))

RECURSIVE StripNewlines(_)
StripNewlines(t) ==
    IF t # <<>> /\ Head(t) = "\n" THEN StripNewlines(Tail(t))
    ELSE IF t # <<>> /\ t[Len(t)] = "\n"
         THEN StripNewlines(SubSeq(t, 1, Len(t) - 1))
         ELSE t

strip_html(html_str) ==
    IF html_str.kind # "text" \/ html_str.words = <<>> THEN <<>>
    ELSE StripNewlines(CollapseNewlines(SubstituteTags(html_str.words)))

\* A taxonomy is an ordered list of categories, each an ordered list of
\* rules; a pattern is the set of (lower-case) words it matches, its source
\* text, and whether re can compile it.  The tables below are the entries
\* of the source's tables that the words of the postings can match.
Pat(alts) == [ok |-> TRUE, alts |-> alts, src |-> NULL]

SIGNAL_PATTERNS ==
    << [cat |-> "hiring_signals",
        rules |-> << [id |-> "immediate", pat |-> Pat({"immediate", "asap", "urgent"})],
                     [id |-> "growth_hire", pat |-> Pat({"growth", "expansion"})] >>],
       [cat |-> "comp_signals",
        rules |-> << [id |-> "equity", pat |-> Pat({"equity", "stock", "rsu", "option", "ownership"})] >>] >>

TOOL_PATTERNS ==
    << [cat |-> "Languages",
        rules |-> << [id |-> "python", pat |-> Pat({"python"})] >>],
       [cat |-> "Cloud_Infrastructure",
        rules |-> << [id |-> "aws", pat |-> Pat({"aws"})] >>] >>

\* signal_id.replace("_", " ").title()
Display(id) ==
    CASE id = "immediate" -> "Immediate"
      [] id = "growth_hire" -> "Growth Hire"
      [] id = "equity" -> "Equity"
      [] id = "python" -> "Python"
      [] id = "aws" -> "Aws"
      [] id = "broken" -> "Broken"
      [] OTHER -> id

\* re.search(pattern, text, re.IGNORECASE)
Search(pat, text) == \E i \in 1..Len(text) : LowerWord(text[i]) \in pat.alts

\* The rules of a taxonomy in iteration order, flattened.
RECURSIVE FlatRules(_)
FlatRules(tax) ==
    IF tax = <<>> THEN <<>>
    ELSE [i \in 1..Len(Head(tax).rules) |->
             [cat |-> Head(tax).cat,
              id |-> Head(tax).rules[i].id,
              pat |-> Head(tax).rules[i].pat]] \o FlatRules(Tail(tax))

RECURSIVE ScanSignals(_, _, _, _)
ScanSignals(rules, text, found, seen) ==
    IF rules = <<>> THEN found
    ELSE LET r == Head(rules)
             key == <<r.cat, r.id>>
             tag == [signal_type |-> r.cat, signal_id |-> r.id,
                     signal_value |-> Display(r.id)]
             hit == IF r.pat.ok THEN Search(r.pat, text)
                    ELSE \E i \in 1..Len(text) : text[i] = LowerWord(r.pat.src)
         IN  IF key \in seen THEN ScanSignals(Tail(rules), text, found, seen)
             ELSE IF hit
                  THEN ScanSignals(Tail(rules), text, Append(found, tag),
                                   seen \cup {key})
                  ELSE ScanSignals(Tail(rules), text, found, seen)

ExtractSignalsWith(tax, title, description) ==
    ScanSignals(FlatRules(tax), LowerText(title \o description), <<>>, {})

extract_signals(title, description) ==
    ExtractSignalsWith(SIGNAL_PATTERNS, title, description)

RECURSIVE ScanTools(_, _, _, _)
ScanTools(rules, text, found, seen) ==
    IF rules = <<>> THEN found
    ELSE LET r == Head(rules)
             tag == [tool_name |-> Display(r.id), tool_category |-> r.cat,
                     tool_id |-> r.id]
         IN  IF r.id \in seen THEN ScanTools(Tail(rules), text, found, seen)
             ELSE IF r.pat.ok /\ Search(r.pat, text)
                  THEN ScanTools(Tail(rules), text, Append(found, tag),
                                 seen \cup {r.id})
                  ELSE ScanTools(Tail(rules), text, found, seen)

ExtractToolsWith(tax, title, description) ==
    ScanTools(FlatRules(tax), title \o description, <<>>, {})

extract_tools(title, description) ==
    ExtractToolsWith(TOOL_PATTERNS, title, description)

\* ------------------------------------------------------- parse_location
\* A location string is a sequence of tokens: words, and the characters
\* " ", "," and ";" each as a token of its own.
UpperWord(w) ==
    CASE w \in {"ny", "Ny"} -> "NY"
      [] w = "tx" -> "TX"
      [] w = "ca" -> "CA"
      [] w \in {"Remote", "remote"} -> "REMOTE"
      [] w = "us" -> "US"
      [] w = "Anywhere" -> "ANYWHERE"
      [] w = "New" -> "NEW"
      [] w = "York" -> "YORK"
      [] w = "Austin" -> "AUSTIN"
      [] w = "Berlin" -> "BERLIN"
      [] OTHER -> w

\* s.split(sep): the pieces between the separators, at least one piece.
RECURSIVE SplitOn(_, _)
SplitOn(s, sep) ==
    IF \A i \in 1..Len(s) : s[i] # sep THEN <<s>>
    ELSE LET k == CHOOSE i \in 1..Len(s) :
                    s[i] = sep /\ \A h \in 1..(i - 1) : s[h] # sep
         IN  <<SubSeq(s, 1, k - 1)>> \o SplitOn(SubSeq(s, k + 1, Len(s)), sep)

\* key in text, for strings
Contains(text, key) ==
    \E i \in 0..(Len(text) - Len(key)) :
        \A h \in 1..Len(key) : text[i + h] = key[h]

REMOTE_STRINGS ==
    { <<"remote">>, <<"remote", ",", " ", "us">>, <<"remote", ",", " ", "usa">>,
      <<"remote", " ", "-", " ", "us">>, <<"remote", " ", "-", " ", "usa">>,
      <<"anywhere">>, <<"work", " ", "from", " ", "home">> }

US_STATES ==
    { "AL", "AK", "AZ", "AR", "CA", "CO", "CT", "DE", "FL", "GA", "HI", "ID",
      "IL", "IN", "IA", "KS", "KY", "LA", "ME", "MD", "MA", "MI", "MN", "MS",
      "MO", "MT", "NE", "NV", "NH", "NJ", "NM", "NY", "NC", "ND", "OH", "OK",
      "OR", "PA", "RI", "SC", "SD", "TN", "TX", "UT", "VT", "VA", "WA", "WV",
      "WI", "WY", "DC" }

\* Entries of METRO_MAP, in its order.
METRO_MAP ==
    << [key |-> <<"san", " ", "francisco">>, metro |-> "San Francisco Bay Area"],
       [key |-> <<"new", " ", "york">>, metro |-> "New York Metro"],
       [key |-> <<"new", " ", "york", " ", "city">>, metro |-> "New York Metro"],
       [key |-> <<"austin">>, metro |-> "Austin Metro"],
       [key |-> <<"london">>, metro |-> "London, UK"] >>

\* for city_key, metro_name in METRO_MAP.items(): if city_key in city
MetroOf(city) ==
    IF \E i \in 1..Len(METRO_MAP) : Contains(city, METRO_MAP[i].key)
    THEN METRO_MAP[CHOOSE i \in 1..Len(METRO_MAP) :
                /\ Contains(city, METRO_MAP[i].key)
                /\ \A h \in 1..(i - 1) : ~Contains(city, METRO_MAP[h].key)].metro
    ELSE NULL

IsStatePart(part) ==
    Len(Strip(part)) = 1 /\ UpperWord(Strip(part)[1]) \in US_STATES

\* for part in loc_parts: upper = part.strip().upper(); if upper in US_STATES
StateOf(loc_parts) ==
    IF \E i \in 1..Len(loc_parts) : IsStatePart(loc_parts[i])
    THEN UpperWord(Strip(loc_parts[CHOOSE i \in 1..Len(loc_parts) :
                /\ IsStatePart(loc_parts[i])
                /\ \A h \in 1..(i - 1) : ~IsStatePart(loc_parts[h])])[1])
    ELSE NULL

\* The loop over all_locs, lines 522-544.
RECURSIVE ScanLocations(_, _, _)
ScanLocations(all_locs, metro, state) ==
    IF all_locs = <<>> THEN [metro |-> metro, state |-> state]
    ELSE LET loc == Head(all_locs)
             split == SplitOn(loc, ",")
             loc_parts == [i \in 1..Len(split) |-> Strip(split[i])]
             city == Strip(LowerText(loc_parts[1]))
             metro2 == IF metro = NULL THEN MetroOf(city) ELSE metro
             state2 == IF state = NULL THEN StateOf(loc_parts) ELSE state
         IN  IF metro2 # NULL /\ state2 # NULL
             THEN [metro |-> metro2, state |-> state2]
             ELSE ScanLocations(Tail(all_locs), metro2, state2)

LocationResult(type, metro, state, is_remote) ==
    [location_type |-> type, metro |-> metro, state |-> state,
     is_remote |-> is_remote]

\* Variant: a location is remote when one of its ";" entries is.
IsRemoteString_anyEntry(location_str) ==
    LET split == SplitOn(location_str, ";")
    IN  \E i \in 1..Len(split) : Strip(LowerText(split[i])) \in REMOTE_STRINGS

\* loc_lower in ("remote", "remote, us", ...)
IsRemoteString(location_str) ==
    Strip(LowerText(location_str)) \in REMOTE_STRINGS

parse_location(location_str) ==
    IF location_str.kind # "text" \/ location_str.words = <<>>
    THEN LocationResult(NULL, NULL, NULL, FALSE)
    ELSE IF IsRemoteString(location_str.words)
    THEN LocationResult("remote", NULL, NULL, TRUE)
    ELSE LET split == SplitOn(location_str.words, ";")
             all_locs == [i \in 1..Len(split) |-> Strip(split[i])]
             found == ScanLocations(all_locs, NULL, NULL)
         IN  LocationResult("onsite", found.metro, found.state, FALSE)

\* ------------------------------------------------------ salary extraction
\* extract_salary reads the description as a string; here a string is the
\* sequence of its characters, each a one-character string.  The two dashes
\* outside ASCII are named by their code points.
EN_DASH == "u2013"
EM_DASH == "u2014"

Digits == {"0", "1", "2", "3", "4", "5", "6", "7", "8", "9"}

DigitVal(c) ==
    CASE c = "0" -> 0 [] c = "1" -> 1 [] c = "2" -> 2 [] c = "3" -> 3
      [] c = "4" -> 4 [] c = "5" -> 5 [] c = "6" -> 6 [] c = "7" -> 7
      [] c = "8" -> 8 [] c = "9" -> 9

\* The character classes of the three patterns: \s, [\d,], [\d.], \d and
\* [-–—to].
Space == {" ", "\n", "\t"}
DigitsComma == Digits \cup {","}
DigitsDot == Digits \cup {"."}
Separator == {"-", EN_DASH, EM_DASH, "t", "o"}

\* Pieces of a pattern: one character of a set, a greedy repetition of a
\* class (at least lo characters), and the optional group (?:\.\d+)?.  cap
\* is the number of the capture group the piece belongs to, 0 for none.
One(c) == [k |-> "one", c |-> c, lo |-> 1, cap |-> 0]
Many(c, lo, cap) == [k |-> "many", c |-> c, lo |-> lo, cap |-> cap]
OptDecimals(cap) == [k |-> "optdec", c |-> Digits, lo |-> 1, cap |-> cap]

\* SALARY_PATTERNS, in the order the function tries them; the second and
\* third are compiled with re.IGNORECASE.
SALARY_PATTERNS ==
    << << One({"$"}), Many(Space, 0, 0), Many(DigitsComma, 1, 1), OptDecimals(1),
          Many(Space, 0, 0), Many(Separator, 1, 0), Many(Space, 0, 0),
          One({"$"}), Many(Space, 0, 0), Many(DigitsComma, 1, 2), OptDecimals(2) >>,
       << One({"$"}), Many(Space, 0, 0), Many(DigitsDot, 1, 1),
          Many(Space, 0, 0), One({"k", "K"}),
          Many(Space, 0, 0), Many(Separator \cup {"T", "O"}, 1, 0), Many(Space, 0, 0),
          One({"$"}), Many(Space, 0, 0), Many(DigitsDot, 1, 2),
          Many(Space, 0, 0), One({"k", "K"}) >>,
       << One({"$"}), Many(Space, 0, 0), Many(DigitsComma, 1, 1), OptDecimals(1),
          Many(Space, 1, 0), One({"O", "o"}), One({"T", "t"}), One({"E", "e"}) >> >>

\* Number of capture groups of a pattern.
Groups(pattern) == SetMax({pattern[i].cap : i \in 1..Len(pattern)})

\* Length of the longest run of characters of class c starting at pos.
RECURSIVE RunLength(_, _, _)
RunLength(text, pos, c) ==
    IF pos > Len(text) \/ text[pos] \notin c THEN 0
    ELSE 1 + RunLength(text, pos + 1, c)

NoMatch == [ok |-> FALSE, groups |-> <<>>]

\* The characters a piece has consumed are appended to its capture group.
Capture(groups, cap, text, from, to) ==
    IF cap = 0 THEN groups
    ELSE [groups EXCEPT ![cap] = @ \o SubSeq(text, from, to - 1)]

\* Backtracking match of the pieces e.. of a pattern at position pos: a
\* repetition takes the longest run first and gives characters back one at
\* a time; the optional group is tried before it is left out.
RECURSIVE MatchAt(_, _, _, _, _)
RECURSIVE TryRun(_, _, _, _, _, _, _)
MatchAt(pattern, e, text, pos, groups) ==
    IF e > Len(pattern) THEN [ok |-> TRUE, groups |-> groups]
    ELSE LET p == pattern[e]
         IN  CASE p.k = "one" ->
                    IF pos <= Len(text) /\ text[pos] \in p.c
                    THEN MatchAt(pattern, e + 1, text, pos + 1, groups)
                    ELSE NoMatch
               [] p.k = "many" ->
                    TryRun(pattern, e, text, pos, pos + RunLength(text, pos, p.c),
                           pos + p.lo, groups)
               [] p.k = "optdec" ->
                    LET taken == IF pos <= Len(text) /\ text[pos] = "."
                                 THEN TryRun(pattern, e, text, pos,
                                             pos + 1 + RunLength(text, pos + 1, p.c),
                                             pos + 2, groups)
                                 ELSE NoMatch
                    IN  IF taken.ok THEN taken
                        ELSE MatchAt(pattern, e + 1, text, pos, groups)

\* Piece e consumes text[pos..to-1], for to from the longest end down to
\* the shortest end least.
TryRun(pattern, e, text, pos, to, least, groups) ==
    IF to < least THEN NoMatch
    ELSE LET r == MatchAt(pattern, e + 1, text, to,
                          Capture(groups, pattern[e].cap, text, pos, to))
         IN  IF r.ok THEN r
             ELSE TryRun(pattern, e, text, pos, to - 1, least, groups)

\* pattern.search(text): the match at the leftmost position that has one.
RECURSIVE SearchFrom(_, _, _)
SearchFrom(pattern, text, pos) ==
    IF pos > Len(text) THEN NoMatch
    ELSE LET r == MatchAt(pattern, 1, text, pos,
                          [g \in 1..Groups(pattern) |-> <<>>])
         IN  IF r.ok THEN r ELSE SearchFrom(pattern, text, pos + 1)

\* g.replace(",", "")
RECURSIVE RemoveCommas(_)
RemoveCommas(g) ==
    IF g = <<>> THEN <<>>
    ELSE IF Head(g) = "," THEN RemoveCommas(Tail(g))
    ELSE <<Head(g)>> \o RemoveCommas(Tail(g))

\* Numbers are exact fractions num/den in lowest terms.
RECURSIVE GCD(_, _)
GCD(a, b) == IF b = 0 THEN a ELSE GCD(b, a % b)

Value(num, den) ==
    LET g == GCD(num, den)
    IN  [kind |-> "number", num |-> num \div g, den |-> den \div g]

NoneValue == [kind |-> "none"]

Less(a, b) == a.num * b.den < b.num * a.den
Times(a, b) == Value(a.num * b.num, a.den * b.den)
Min(a, b) == IF Less(b, a) THEN b ELSE a
Max(a, b) == IF Less(a, b) THEN b ELSE a

\* round(x): the nearest integer, the even one of the two when x is halfway.
Round(x) ==
    LET q == x.num \div x.den
        twice == 2 * (x.num % x.den)
    IN  Value(IF twice < x.den THEN q
              ELSE IF twice > x.den THEN q + 1
              ELSE IF q % 2 = 0 THEN q ELSE q + 1, 1)

RECURSIVE DigitsValue(_)
DigitsValue(ds) ==
    IF ds = <<>> THEN 0
    ELSE 10 * DigitsValue(SubSeq(ds, 1, Len(ds) - 1)) + DigitVal(ds[Len(ds)])

RECURSIVE Pow10(_)
Pow10(n) == IF n = 0 THEN 1 ELSE 10 * Pow10(n - 1)

\* float(g) for a string of digits and dots: a number when g has at
\* least one digit and at most one dot, ValueError otherwise.
IsFloat(g) ==
    /\ \E i \in 1..Len(g) : g[i] \in Digits
    /\ Cardinality({i \in 1..Len(g) : g[i] = "."}) <= 1

Float(g) ==
    LET dots == {i \in 1..Len(g) : g[i] = "."}
        dot == IF dots = {} THEN Len(g) + 1 ELSE CHOOSE i \in dots : TRUE
        digits == SubSeq(g, 1, dot - 1) \o SubSeq(g, dot + 1, Len(g))
    IN  Value(DigitsValue(digits), Pow10(IF dots = {} THEN 0 ELSE Len(g) - dot))

Thousand == Value(1000, 1)

\* The loop body of lines 112-116 for one captured group.
Scaled(g) ==
    LET v == Float(RemoveCommas(g))
    IN  IF Less(v, Thousand) THEN Times(v, Thousand) ELSE v

SalaryReturned(lo, hi) == [kind |-> "ok", min |-> lo, max |-> hi]
SalaryRaised(e) == [kind |-> "raised", error |-> e]

\* Lines 110-121, for the captured groups of the first pattern that matched.
SalaryOf(groups) ==
    IF \E i \in 1..Len(groups) : ~IsFloat(RemoveCommas(groups[i]))
    THEN SalaryRaised("ValueError")
    ELSE IF Len(groups) = 2
    THEN SalaryReturned(Min(Scaled(groups[1]), Scaled(groups[2])),
                        Max(Scaled(groups[1]), Scaled(groups[2])))
    ELSE LET ote == Scaled(groups[1])
         IN  SalaryReturned(Round(Times(ote, Value(6, 10))), Round(ote))

RECURSIVE TryPatterns(_, _)
TryPatterns(patterns, text) ==
    IF patterns = <<>> THEN SalaryReturned(NoneValue, NoneValue)
    ELSE LET match == SearchFrom(Head(patterns), text, 1)
         IN  IF match.ok THEN SalaryOf(match.groups)
             ELSE TryPatterns(Tail(patterns), text)

extract_salary(description_text) ==
    IF description_text.kind # "str" \/ description_text.chars = <<>>
    THEN SalaryReturned(NoneValue, NoneValue)
    ELSE TryPatterns(SALARY_PATTERNS, description_text.chars)

\* ------------------------------------------------------- classification
\* A title is a sequence of tokens whose concatenation is the string: a
\* token is a run of word characters or one other character, and two word
\* tokens side by side are one longer word.  A pattern is a set of
\* alternatives, each a sequence of tokens and of word boundaries.
B == "\\b"

IsWordToken(t) == t \notin {" ", ",", ".", "-", "/", "&", ";", ":"}

\* \b before the token at pos: exactly one side of the position is a word
\* character.
BoundaryAt(text, pos) ==
    LET before == pos > 1 /\ IsWordToken(text[pos - 1])
        after == pos <= Len(text) /\ IsWordToken(text[pos])
    IN  before # after

RECURSIVE PhraseAt(_, _, _)
PhraseAt(phrase, text, pos) ==
    IF phrase = <<>> THEN TRUE
    ELSE IF Head(phrase) = B
    THEN BoundaryAt(text, pos) /\ PhraseAt(Tail(phrase), text, pos)
    ELSE /\ pos <= Len(text)
         /\ text[pos] = Head(phrase)
         /\ PhraseAt(Tail(phrase), text, pos + 1)

\* re.search(pattern, text)
SearchPhrases(alts, text) ==
    \E phrase \in alts : \E pos \in 1..(Len(text) + 1) : PhraseAt(phrase, text, pos)

\* \b(w1|w2|...)\b
Bounded(phrases) == {<<B>> \o phrase \o <<B>> : phrase \in phrases}

SENIORITY_RULES ==
    << [alts |-> Bounded({<<"chief">>, <<"ceo">>, <<"cto">>, <<"cfo">>, <<"coo">>,
                          <<"cpo">>, <<"cro">>, <<"cmo">>}),
        tier |-> "c_level"],
       [alts |-> Bounded({<<"evp">>}) \cup {<<"executive", " ", "vice", " ", "president">>},
        tier |-> "evp"],
       [alts |-> Bounded({<<"svp">>}) \cup {<<"senior", " ", "vice", " ", "president">>},
        tier |-> "svp"],
       [alts |-> Bounded({<<"vice", " ", "president">>, <<"vp">>}), tier |-> "vp"],
       [alts |-> Bounded({<<"senior", " ", "director">>}), tier |-> "senior_director"],
       [alts |-> Bounded({<<"director">>}), tier |-> "director"],
       [alts |-> Bounded({<<"head", " ", "of">>}) \cup {<<B, "head", ",">>}, tier |-> "head"],
       [alts |-> Bounded({<<"senior", " ", "manager">>}), tier |-> "senior_manager"],
       [alts |-> Bounded({<<"manager">>}), tier |-> "manager"],
       [alts |-> Bounded({<<"staff">>}), tier |-> "senior"],
       [alts |-> Bounded({<<"principal">>}), tier |-> "senior"],
       [alts |-> Bounded({<<"lead">>}), tier |-> "senior"],
       [alts |-> Bounded({<<"senior">>, <<"sr">>, <<"sr", ".">>}), tier |-> "senior"],
       [alts |-> Bounded({<<"associate">>}), tier |-> "associate"],
       [alts |-> Bounded({<<"junior">>, <<"jr">>, <<"jr", ".">>}), tier |-> "entry"],
       [alts |-> Bounded({<<"intern">>}), tier |-> "entry"] >>

\* The mutation of the loop of lines 215-217 that lets a later rule
\* overwrite an earlier one.
RECURSIVE FirstRule_lastWins(_, _, _)
FirstRule_lastWins(rules, text, default) ==
    IF rules = <<>> THEN default
    ELSE IF SearchPhrases(rules[Len(rules)].alts, text) THEN rules[Len(rules)].tier
    ELSE FirstRule_lastWins(SubSeq(rules, 1, Len(rules) - 1), text, default)

\* for pattern, tier in rules: if re.search(pattern, text): return tier
RECURSIVE FirstRule(_, _, _)
FirstRule(rules, text, default) ==
    IF rules = <<>> THEN default
    ELSE IF SearchPhrases(Head(rules).alts, text) THEN Head(rules).tier
    ELSE FirstRule(Tail(rules), text, default)

classify_seniority(title) == FirstRule(SENIORITY_RULES, LowerText(title), "mid")

\* DEPARTMENT_TO_FUNCTION as a set of (key, function) pairs; a key is the
\* token sequence of the lower-case department name.
DEPARTMENT_TO_FUNCTION ==
    { <<<<"account", " ", "executive">>, "sales">>,
      <<<<"account", " ", "management">>, "sales">>,
      <<<<"business", " ", "development">>, "sales">>,
      <<<<"sales">>, "sales">>,
      <<<<"sales", " ", "development">>, "sales">>,
      <<<<"sales", " ", "operations">>, "sales">>,
      <<<<"sales", " ", "enablement">>, "sales">>,
      <<<<"sales", " ", "strategy">>, "sales">>,
      <<<<"sales", " ", "strategy", " ", "&", " ", "operations">>, "sales">>,
      <<<<"cartax", " ", "sales">>, "sales">>,
      <<<<"revenue">>, "sales">>,
      <<<<"engineering">>, "engineering">>,
      <<<<"engineering", " ", "leadership">>, "engineering">>,
      <<<<"infrastructure">>, "engineering">>,
      <<<<"site", " ", "reliability">>, "engineering">>,
      <<<<"mobile">>, "engineering">>,
      <<<<"information", " ", "security", " ", "&", " ", "it">>, "engineering">>,
      <<<<"business", " ", "systems">>, "engineering">>,
      <<<<"data", " ", "&", " ", "machine", " ", "learning">>, "data">>,
      <<<<"product">>, "product">>,
      <<<<"design">>, "product">>,
      <<<<"r", "&", "d", " ", "operations">>, "product">>,
      <<<<"marketing">>, "marketing">>,
      <<<<"brand", " ", "marketing">>, "marketing">>,
      <<<<"demand", " ", "generation">>, "marketing">>,
      <<<<"marketing", " ", "operations">>, "marketing">>,
      <<<<"product", " ", "marketing">>, "marketing">>,
      <<<<"finance">>, "finance">>,
      <<<<"strategic", " ", "finance">>, "finance">>,
      <<<<"accounting">>, "finance">>,
      <<<<"treasury">>, "finance">>,
      <<<<"procurement">>, "finance">>,
      <<<<"tax">>, "finance">>,
      <<<<"valuations">>, "finance">>,
      <<<<"people">>, "people">>,
      <<<<"human", " ", "resources">>, "people">>,
      <<<<"recruiting">>, "people">>,
      <<<<"total", " ", "rewards">>, "people">>,
      <<<<"learning", " ", "&", " ", "development">>, "people">>,
      <<<<"legal">>, "legal">>,
      <<<<"compliance">>, "legal">>,
      <<<<"policy">>, "legal">>,
      <<<<"policy", " ", "&", " ", "strategy">>, "legal">>,
      <<<<"customer", " ", "success">>, "operations">>,
      <<<<"customer", " ", "support">>, "operations">>,
      <<<<"customer", " ", "implementations">>, "operations">>,
      <<<<"delivery", " ", "operations">>, "operations">>,
      <<<<"operations", " ", "&", " ", "underwriting">>, "operations">>,
      <<<<"strategy", " ", "&", " ", "business", " ", "operations">>, "operations">>,
      <<<<"fund", " ", "administration">>, "operations">>,
      <<<<"broker", " ", "&", " ", "market", " ", "operations">>, "operations">>,
      <<<<"portfolio", " ", "insights">>, "operations">>,
      <<<<"administrative">>, "operations">>,
      <<<<"real", " ", "estate", " ", "and", " ", "workplace", " ", "services">>, "operations">>,
      <<<<"liquidity">>, "operations">>,
      <<<<"executive">>, "other">>,
      <<<<"executive", " ", "assistant">>, "operations">>,
      <<<<"confidential">>, "other">> }

DepartmentKeys == {entry[1] : entry \in DEPARTMENT_TO_FUNCTION}

DepartmentFunction(key) ==
    (CHOOSE entry \in DEPARTMENT_TO_FUNCTION : entry[1] = key)[2]

TITLE_TO_FUNCTION ==
    << [alts |-> Bounded({<<"engineer">>, <<"developer">>, <<"sre">>, <<"devops">>,
                          <<"architect">>,
                          <<"infrastructure">>}),
        func |-> "engineering"],
       [alts |-> Bounded({<<"data", " ", "scientist">>, <<"data", " ", "engineer">>,
                          <<"machine", " ", "learning">>,
                          <<"ml", " ", "engineer">>,
                          <<"analytics">>}),
        func |-> "data"],
       [alts |-> Bounded({<<"product", " ", "manager">>, <<"product", " ", "lead">>,
                          <<"product", " ", "director">>}),
        func |-> "product"],
       [alts |-> Bounded({<<"designer">>, <<"ux">>, <<"ui">>}),
        func |-> "product"],
       [alts |-> Bounded({<<"account", " ", "executive">>, <<"ae">>, <<"sales">>,
                          <<"sdr">>, <<"bdr">>,
                          <<"business", " ", "development">>}),
        func |-> "sales"],
       [alts |-> Bounded({<<"marketing">>, <<"demand", " ", "gen">>, <<"content">>,
                          <<"brand">>, <<"growth">>}),
        func |-> "marketing"],
       [alts |-> Bounded({<<"finance">>, <<"accounting">>, <<"controller">>,
                          <<"tax">>, <<"treasury">>}),
        func |-> "finance"],
       [alts |-> Bounded({<<"recruiter">>, <<"talent">>, <<"people">>, <<"hr">>,
                          <<"human", " ", "resources">>,
                          <<"hrbp">>}),
        func |-> "people"],
       [alts |-> Bounded({<<"legal">>, <<"counsel">>, <<"compliance">>,
                          <<"paralegal">>}),
        func |-> "legal"],
       [alts |-> Bounded({<<"operations">>, <<"support">>, <<"success">>,
                          <<"implementation">>,
                          <<"onboarding">>}),
        func |-> "operations"] >>

\* The mutation of classify_function that consults the title rules before
\* the department table.
RECURSIVE FirstFunction(_, _)
classify_function_titleFirst(department_name, title) ==
    LET byTitle == FirstFunction(TITLE_TO_FUNCTION, LowerText(title))
        dept_lower == Strip(LowerText(department_name.words))
    IN  IF byTitle # "other" THEN byTitle
        ELSE IF department_name.kind = "text" /\ dept_lower \in DepartmentKeys
        THEN DepartmentFunction(dept_lower)
        ELSE "other"

\* for pattern, func in TITLE_TO_FUNCTION: if re.search(...): return func
FirstFunction(rules, text) ==
    IF rules = <<>> THEN "other"
    ELSE IF SearchPhrases(Head(rules).alts, text) THEN Head(rules).func
    ELSE FirstFunction(Tail(rules), text)

\* department_name is null or a string; the empty string is falsy.
classify_function(department_name, title) ==
    LET dept_lower == Strip(LowerText(department_name.words))
    IN  IF /\ department_name.kind = "text"
           /\ department_name.words # <<>>
           /\ dept_lower \in DepartmentKeys
        THEN DepartmentFunction(dept_lower)
        ELSE FirstFunction(TITLE_TO_FUNCTION, LowerText(title))

\* ---------------------------------------------------------- AI detection
\* AI_TERMS: the alternatives of the capturing group in their order, each
\* between word boundaries, and after them the alternative \bAI\b, which
\* stands outside the group.  The pattern is compiled with re.IGNORECASE.
AiGroup ==
    << <<"artificial", " ", "intelligence">>, <<"machine", " ", "learning">>,
       <<"deep", " ", "learning">>, <<"neural", " ", "network">>, <<"nlp">>,
       <<"natural", " ", "language", " ", "processing">>,
       <<"computer", " ", "vision">>, <<"llm">>,
       <<"large", " ", "language", " ", "model">>, <<"generative", " ", "ai">>,
       <<"gpt">>, <<"transformer", " ", "model">>,
       <<"reinforcement", " ", "learning">>,
       <<"ai", " ", "native">>, <<"ai", "-", "native">>,
       <<"ai", " ", "first">>, <<"ai", "-", "first">>,
       <<"ai", " ", "powered">>, <<"ai", "-", "powered">>,
       <<"ai", "/", "ml">> >>

AI_TERMS ==
    [i \in 1..Len(AiGroup) |-> [phrase |-> <<B>> \o AiGroup[i] \o <<B>>, group |-> TRUE]]
    \o << [phrase |-> <<B, "ai", B>>, group |-> FALSE] >>

AI_NATIVE_PATTERNS ==
    Bounded({ <<"machine", " ", "learning", " ", "engineer">>, <<"ml", " ", "engineer">>,
              <<"ai", " ", "engineer">>, <<"data", " ", "scientist">>,
              <<"deep", " ", "learning">>, <<"nlp", " ", "engineer">>,
              <<"computer", " ", "vision", " ", "engineer">>, <<"ai", " ", "researcher">>,
              <<"llm">>, <<"prompt", " ", "engineer">> })

\* The position after a case-insensitive match of phrase at pos, 0 when
\* there is none.
RECURSIVE PhraseEnd(_, _, _)
PhraseEnd(phrase, text, pos) ==
    IF phrase = <<>> THEN pos
    ELSE IF Head(phrase) = B
    THEN IF BoundaryAt(text, pos) THEN PhraseEnd(Tail(phrase), text, pos) ELSE 0
    ELSE IF pos <= Len(text) /\ LowerWord(text[pos]) = Head(phrase)
    THEN PhraseEnd(Tail(phrase), text, pos + 1)
    ELSE 0

\* The match of the first alternative that matches at pos: its end and
\* what findall reports for it, the text of the group or, when the group
\* took no part in the match, the empty string.
RECURSIVE FirstAlternative(_, _, _)
FirstAlternative(alts, text, pos) ==
    IF alts = <<>> THEN [end |-> 0, item |-> <<>>]
    ELSE LET end == PhraseEnd(Head(alts).phrase, text, pos)
         IN  IF end > 0
             THEN [end |-> end,
                   item |-> IF Head(alts).group THEN SubSeq(text, pos, end - 1) ELSE <<>>]
             ELSE FirstAlternative(Tail(alts), text, pos)

\* AI_TERMS.findall(text): the matches from left to right, none overlapping.
RECURSIVE FindAll(_, _, _)
FindAll(alts, text, pos) ==
    IF pos > Len(text) THEN <<>>
    ELSE LET m == FirstAlternative(alts, text, pos)
         IN  IF m.end > 0 THEN <<m.item>> \o FindAll(alts, text, m.end)
             ELSE FindAll(alts, text, pos + 1)

\* ", ".join(set(...)): the string lists the members of the set once each,
\* in the iteration order of the set, which the language leaves open.  The
\* joined string is kept as the sequence of its items.
Orders(S) ==
    {order \in [1..Cardinality(S) -> S] :
        \A i, j \in 1..Cardinality(S) : order[i] = order[j] => i = j}

Joined(items) == [kind |-> "joined", items |-> items]

AiResult(has_ai, terms_found, is_native) ==
    [has_ai_mention |-> has_ai, ai_terms_found |-> terms_found,
     is_ai_native_role |-> is_native]

\* The mutation of line 246 that searches the native-role vocabulary in
\* the title and the description.
detect_ai_nativeFromText(title, description) ==
    LET text == title \o <<" ">> \o description
        mentions == FindAll(AI_TERMS, text, 1)
        has_ai == Len(mentions) > 0
        is_native == SearchPhrases(AI_NATIVE_PATTERNS, LowerText(text))
    IN  IF has_ai
        THEN {AiResult(TRUE, Joined(order), is_native) :
                order \in Orders({mentions[i] : i \in 1..Len(mentions)})}
        ELSE {AiResult(FALSE, NoneValue, is_native)}

\* The results detect_ai can return for a title and a description.
detect_ai(title, description) ==
    LET text == title \o <<" ">> \o description
        mentions == FindAll(AI_TERMS, text, 1)
        has_ai == Len(mentions) > 0
        is_native == SearchPhrases(AI_NATIVE_PATTERNS, LowerText(title))
    IN  IF has_ai
        THEN {AiResult(TRUE, Joined(order), is_native) :
                order \in Orders({mentions[i] : i \in 1..Len(mentions)})}
        ELSE {AiResult(FALSE, NoneValue, is_native)}

\* A source timestamp is absent, null, a number, or a string; a string is
\* either ISO-8601 (its wall-clock fields and UTC offset) or free text.
IsString(u) == u.kind \in {"iso", "str"}

Truthy(u) ==
    /\ u.kind \notin {"missing", "null"}
    /\ (u.kind = "int" => u.val # 0)
    /\ (u.kind = "str" => u.chars # <<>>)

\* dt.strftime("%Y-%m-%d %H:%M:%S") prints the wall-clock fields of dt.
ParseDate(u) ==
    IF ~Truthy(u) THEN JNULL
    ELSE IF u.kind = "iso" THEN [kind |-> "datetime", day |-> u.day, hour |-> u.hour]
    ELSE IF Len(u.chars) >= 19 THEN Chars(SubSeq(u.chars, 1, 19)) ELSE u

\* The exception one posting's enrichment raises, or NULL.
EnrichError(job) ==
    IF job.id = MISSING THEN "KeyError"
    ELSE IF job.title = JNULL THEN "AttributeError"
    ELSE IF Truthy(job.updated_at) /\ ~IsString(job.updated_at)
         THEN "AttributeError"
         ELSE NULL

Enrich(job) ==
    LET title == IF job.title = MISSING THEN <<>> ELSE job.title.words
        description == strip_html(job.content)
    IN  [source_id |-> Str(job.id.val),
         title |-> title,
         description |-> description,
         date_posted |-> ParseDate(job.updated_at),
         signals |-> extract_signals(title, description),
         tools |-> extract_tools(title, description)]

\* process_greenhouse_jobs: the list of enriched records, or the exception
\* of the first posting that raises (nothing catches it).
RECURSIVE process_greenhouse_jobs(_)
process_greenhouse_jobs(raw_jobs) ==
    IF raw_jobs = <<>> THEN [raised |-> NULL, parsed |-> <<>>]
    ELSE IF EnrichError(Head(raw_jobs)) # NULL
         THEN [raised |-> EnrichError(Head(raw_jobs)), parsed |-> <<>>]
         ELSE LET rest == process_greenhouse_jobs(Tail(raw_jobs))
              IN  IF rest.raised # NULL THEN rest
                  ELSE [raised |-> NULL,
                        parsed |-> <<Enrich(Head(raw_jobs))>> \o rest.parsed]

\* ----------------------------------------------------------------- store
EmptyStore == [jobs |-> {}, job_signals |-> {}, job_tools |-> {}, companies |-> {}]

\* cursor.lastrowid of an INSERT: one more than the largest rowid in use.
NextRowId(table) == SetMax({r.id : r \in table}) + 1

\* Variant: the company's aggregate row is deleted with its postings.
delete_company_data_dropsAggregate(store, company_name) ==
    LET normalized == Normalize(company_name)
        job_ids == {j.id : j \in {x \in store.jobs :
                                    x.company_name_normalized = normalized}}
    IN  [store |->
            IF job_ids # {}
            THEN [store EXCEPT
                    !.job_signals = {r \in @ : r.job_id \notin job_ids},
                    !.job_tools = {r \in @ : r.job_id \notin job_ids},
                    !.jobs = {r \in @ : r.id \notin job_ids},
                    !.companies = {c \in @ : c.name_normalized # normalized}]
            ELSE store,
         count |-> Cardinality(job_ids)]

\* Variant: the job_signals rows of the deleted jobs are left behind.
delete_company_data_keepsSignals(store, company_name) ==
    LET normalized == Normalize(company_name)
        job_ids == {j.id : j \in {x \in store.jobs :
                                    x.company_name_normalized = normalized}}
    IN  [store |->
            IF job_ids # {}
            THEN [store EXCEPT
                    !.job_tools = {r \in @ : r.job_id \notin job_ids},
                    !.jobs = {r \in @ : r.id \notin job_ids}]
            ELSE store,
         count |-> Cardinality(job_ids)]

\* Variant: the jobs are selected by the display name as given.
delete_company_data_byDisplayName(store, company_name) ==
    LET job_ids == {j.id : j \in {x \in store.jobs :
                                    x.company_name = company_name}}
    IN  [store |->
            IF job_ids # {}
            THEN [store EXCEPT
                    !.job_signals = {r \in @ : r.job_id \notin job_ids},
                    !.job_tools = {r \in @ : r.job_id \notin job_ids},
                    !.jobs = {r \in @ : r.id \notin job_ids}]
            ELSE store,
         count |-> Cardinality(job_ids)]

\* delete_company_data: the store after the deletes and the returned count.
delete_company_data(store, company_name) ==
    LET normalized == Normalize(company_name)
        job_ids == {j.id : j \in {x \in store.jobs :
                                    x.company_name_normalized = normalized}}
    IN  [store |->
            IF job_ids # {}
            THEN [store EXCEPT
                    !.job_signals = {r \in @ : r.job_id \notin job_ids},
                    !.job_tools = {r \in @ : r.job_id \notin job_ids},
                    !.jobs = {r \in @ : r.id \notin job_ids}]
            ELSE store,
         count |-> Cardinality(job_ids)]

\* Variant: the lookup names the source in another spelling.
Existing_otherSource(store, source_id) ==
    {r \in store.jobs : r.source = "Greenhouse" /\ r.source_id = source_id}

\* SELECT id FROM jobs WHERE source = ? AND source_id = ?
Existing(store, source_id) ==
    {r \in store.jobs : r.source = SOURCE /\ r.source_id = source_id}

\* Variant: the update also resets the first-seen timestamp.
UpdateJob_resetsFirstSeen(store, id, now) ==
    [store EXCEPT !.jobs =
        {IF r.id = id
         THEN [r EXCEPT !.last_seen = now, !.is_active = 1, !.date_scraped = now]
         ELSE r : r \in @}]

\* Variant: the update clears the active flag.
UpdateJob_deactivates(store, id, now) ==
    [store EXCEPT !.jobs =
        {IF r.id = id THEN [r EXCEPT !.last_seen = now, !.is_active = 0] ELSE r
            : r \in @}]

\* UPDATE jobs SET last_seen = ?, is_active = 1 WHERE id = ?
UpdateJob(store, id, now) ==
    [store EXCEPT !.jobs =
        {IF r.id = id THEN [r EXCEPT !.last_seen = now, !.is_active = 1] ELSE r
            : r \in @}]

JobRow(id, j, company_name, company_url, industry, now) ==
    [id |-> id, source |-> SOURCE, source_id |-> j.source_id, title |-> j.title,
     company_name |-> company_name,
     company_name_normalized |-> Normalize(company_name),
     company_url |-> company_url,
     description_raw |-> j.description,
     has_description |-> IF j.description # <<>> THEN 1 ELSE 0,
     company_industry |-> industry,
     date_posted |-> j.date_posted,
     date_scraped |-> now, last_seen |-> now, is_active |-> 1]

\* INSERT INTO jobs (...) VALUES (...)
InsertJob(store, j, company_name, company_url, industry, now) ==
    [store EXCEPT !.jobs =
        @ \cup {JobRow(NextRowId(@), j, company_name, company_url, industry, now)}]

\* One INSERT INTO job_signals per detected signal, in list order.
RECURSIVE InsertSignals(_, _, _)
InsertSignals(table, job_id, sigs) ==
    IF sigs = <<>> THEN table
    ELSE InsertSignals(
            table \cup {[id |-> NextRowId(table), job_id |-> job_id,
                         signal_type |-> Head(sigs).signal_type,
                         signal_id |-> Head(sigs).signal_id,
                         signal_value |-> Head(sigs).signal_value]},
            job_id, Tail(sigs))

SignalSentinel(table, job_id) ==
    table \cup {[id |-> NextRowId(table), job_id |-> job_id,
                 signal_type |-> NONE_TAG, signal_id |-> NONE_TAG,
                 signal_value |-> NONE_TAG]}

RECURSIVE InsertTools(_, _, _)
InsertTools(table, job_id, tools) ==
    IF tools = <<>> THEN table
    ELSE InsertTools(
            table \cup {[id |-> NextRowId(table), job_id |-> job_id,
                         tool_name |-> Head(tools).tool_name,
                         tool_category |-> Head(tools).tool_category,
                         tool_id |-> Head(tools).tool_id]},
            job_id, Tail(tools))

ToolSentinel(table, job_id) ==
    table \cup {[id |-> NextRowId(table), job_id |-> job_id,
                 tool_name |-> NONE_TAG, tool_category |-> NONE_TAG,
                 tool_id |-> NONE_TAG]}

\* Variant: no sentinel row is written for an empty list.
WriteChildRows_noSentinel(store, job_db_id, j) ==
    [store EXCEPT
        !.job_signals = InsertSignals(@, job_db_id, j.signals),
        !.job_tools = InsertTools(@, job_db_id, j.tools)]

\* The child-row writes of one loop iteration: they follow the if/else and
\* are executed for an existing job as well as for a new one.
WriteChildRows(store, job_db_id, j) ==
    [store EXCEPT
        !.job_signals =
            IF j.signals = <<>> THEN SignalSentinel(@, job_db_id)
            ELSE InsertSignals(@, job_db_id, j.signals),
        !.job_tools =
            IF j.tools = <<>> THEN ToolSentinel(@, job_db_id)
            ELSE InsertTools(@, job_db_id, j.tools)]

\* Variant: the update adds the run's count to the stored count.
UpsertCompany_accumulates(store, company_name, company_url, industry, total, now) ==
    LET normalized == Normalize(company_name)
    IN  IF {c \in store.companies : c.name_normalized = normalized} = {}
        THEN [store EXCEPT !.companies =
                @ \cup {[id |-> NextRowId(@), name |-> company_name,
                         name_normalized |-> normalized, industry |-> industry,
                         is_tech |-> 1, total_job_postings |-> total,
                         url |-> company_url, updated_at |-> now]}]
        ELSE [store EXCEPT !.companies =
                {IF c.name_normalized = normalized
                 THEN [c EXCEPT !.total_job_postings = @ + total,
                                !.updated_at = now]
                 ELSE c : c \in @}]

\* Upsert of the companies table at the end of import_to_db.
UpsertCompany(store, company_name, company_url, industry, total, now) ==
    LET normalized == Normalize(company_name)
    IN  IF {c \in store.companies : c.name_normalized = normalized} = {}
        THEN [store EXCEPT !.companies =
                @ \cup {[id |-> NextRowId(@), name |-> company_name,
                         name_normalized |-> normalized, industry |-> industry,
                         is_tech |-> 1, total_job_postings |-> total,
                         url |-> company_url, updated_at |-> now]}]
        ELSE [store EXCEPT !.companies =
                {IF c.name_normalized = normalized
                 THEN [c EXCEPT !.total_job_postings = total, !.updated_at = now]
                 ELSE c : c \in @}]

\* ---------------------------------------------------------------- inputs
CompanyNames == {<<"A", "b">>, <<" ", "a", "B">>, <<"X">>}
Urls == {"https://a.example"}
Industry == NULL

Stamp1 == Iso(1, 9, 0)

\* Postings of the feed: one posting in two versions of its text, a second
\* posting, and three postings whose enrichment raises.
P1 ==
    [id |-> Num(1), title |-> Text(<<"Senior", "Engineer">>),
     updated_at |-> Stamp1,
     content |-> Text(<<"<p>", "Urgent", "Python", "</p>">>)]

P1b ==
    [id |-> Num(1), title |-> Text(<<"Engineer">>),
     updated_at |-> MISSING, content |-> JNULL]

P2 ==
    [id |-> Num(2), title |-> MISSING,
     updated_at |-> Chars(<<"s", "o", "o", "n">>),
     content |-> Text(<<"<li>", "equity", "&amp;", "aws", "<br>">>)]

BadNoId ==
    [id |-> MISSING, title |-> Text(<<"Engineer">>),
     updated_at |-> Stamp1, content |-> JNULL]

BadNullTitle ==
    [id |-> Num(2), title |-> JNULL, updated_at |-> Stamp1, content |-> JNULL]

BadNumericStamp ==
    [id |-> Num(2), title |-> Text(<<"Engineer">>),
     updated_at |-> Num(1700000000), content |-> JNULL]

RawGood == {P1, P1b, P2}
RawBad == {BadNoId, BadNullTitle, BadNumericStamp}
RawPostings == RawGood \cup RawBad

SeqsUpTo(S, n) == UNION {[1..k -> S] : k \in 0..n}

\* What fetch_greenhouse_jobs returns to main: the empty board, one
\* posting, a page fetched twice with the text changed in between, two
\* postings, and batches with a posting that cannot be enriched.
GoodBatches == {<<>>, <<P1>>, <<P1b>>, <<P2>>, <<P1, P1b>>, <<P1b, P2>>}
BadBatches == {<<BadNoId>>, <<P1, BadNullTitle>>, <<BadNumericStamp, P2>>}
RawBatches == GoodBatches \cup BadBatches

\* Lists import_to_db is called with: outputs of process_greenhouse_jobs.
ParsedBatches == {process_greenhouse_jobs(b).parsed : b \in GoodBatches}

\* ----------------------------------------------------------------- state
Closed == [open |-> FALSE, store |-> EmptyStore]
NoRet == [kind |-> "none", inserted |-> 0, updated |-> 0, error |-> NULL]
Returned(i, u) == [kind |-> "ok", inserted |-> i, updated |-> u, error |-> NULL]
Raised(e) == [kind |-> "raised", inserted |-> 0, updated |-> 0, error |-> e]

NoRun ==
    [via |-> "none", company |-> <<>>, url |-> NULL, industry |-> Industry,
     reimport |-> FALSE, dry_run |-> FALSE, deleted |-> 0,
     parsed |-> <<>>, i |-> 1, now |-> 0, inserted |-> 0, updated |-> 0]

Pending == [done |-> FALSE, raised |-> NULL, parsed |-> <<>>]

StoreInit ==
    /\ db = EmptyStore
    /\ conn = Closed
    /\ pc = "idle"
    /\ run = NoRun
    /\ clock = 1
    /\ runs = 0
    /\ pre = EmptyStore
    /\ outcomes = <<>>
    /\ ret = NoRet

Init ==
    /\ StoreInit
    /\ fin = <<>>
    /\ fout = Pending

\* datetime.now(timezone.utc) at the start of import_to_db: the wall clock
\* has moved on since the previous call.
Now == clock + 1

Resting == pc \in {"idle", "done", "failed"}

\* Variant: the negation of the dry-run flag is lost.
ShouldWipe_negationDropped(reimport, dry_run) == reimport /\ dry_run

\* Variant: the dry-run flag is not consulted.
ShouldWipe_ignoresDryRun(reimport, dry_run) == reimport

\* if args.reimport and not args.dry_run
ShouldWipe(reimport, dry_run) == reimport /\ ~dry_run

\* main(), lines 829-849: parse the arguments and, on --reimport without
\* --dry-run, wipe the company.
MainStart(company, url, reimport, dry_run) ==
    /\ Resting
    /\ runs < MaxRuns
    /\ LET del == delete_company_data(db, company)
           wipe == ShouldWipe(reimport, dry_run)
       IN  /\ db' = IF wipe THEN del.store ELSE db
           /\ run' = [NoRun EXCEPT !.via = "main", !.company = company,
                        !.url = url, !.reimport = reimport,
                        !.dry_run = dry_run,
                        !.deleted = IF wipe THEN del.count ELSE 0]
    /\ pre' = db
    /\ pc' = "fetch"
    /\ runs' = runs + 1
    /\ outcomes' = <<>>
    /\ ret' = NoRet
    /\ UNCHANGED <<conn, clock, fin, fout>>

\* fetch_greenhouse_jobs raises (network, HTTP or JSON error).
MainFetchFail ==
    /\ pc = "fetch"
    /\ pc' = "failed"
    /\ ret' = Raised("URLError")
    /\ UNCHANGED <<db, conn, run, clock, runs, pre, outcomes, fin, fout>>

\* main(), lines 852-864: fetch, process_greenhouse_jobs, print_summary and
\* the call of import_to_db up to the start of its loop.
MainFetchProcess(raw_jobs) ==
    /\ pc = "fetch"
    /\ LET res == process_greenhouse_jobs(raw_jobs)
       IN  IF res.raised # NULL
           THEN /\ pc' = "failed"
                /\ ret' = Raised(res.raised)
                /\ UNCHANGED <<conn, run, clock>>
           ELSE IF res.parsed = <<>>
           THEN \* print_summary divides by len(parsed)
                /\ pc' = "failed"
                /\ ret' = Raised("ZeroDivisionError")
                /\ UNCHANGED <<conn, run, clock>>
           ELSE IF run.dry_run
           THEN /\ pc' = "done"
                /\ run' = [run EXCEPT !.parsed = res.parsed]
                /\ ret' = NoRet
                /\ UNCHANGED <<conn, clock>>
           ELSE /\ pc' = "import"
                /\ run' = [run EXCEPT !.parsed = res.parsed, !.now = Now]
                /\ clock' = Now
                /\ conn' = [open |-> TRUE, store |-> db]
                /\ ret' = NoRet
    /\ UNCHANGED <<db, runs, pre, outcomes, fin, fout>>

\* import_to_db called directly, lines 576-599.
ImportToDbCall(jobs_data, company, url, dry_run) ==
    /\ Resting
    /\ runs < MaxRuns
    /\ runs' = runs + 1
    /\ pre' = db
    /\ outcomes' = <<>>
    /\ clock' = IF dry_run THEN clock ELSE Now
    /\ run' = [NoRun EXCEPT !.via = "import_to_db", !.company = company,
                 !.url = url, !.dry_run = dry_run, !.parsed = jobs_data,
                 !.now = Now]
    /\ IF dry_run
       THEN /\ pc' = "done"
            /\ ret' = Returned(0, 0)
            /\ conn' = conn
       ELSE /\ pc' = "import"
            /\ ret' = NoRet
            /\ conn' = [open |-> TRUE, store |-> db]
    /\ UNCHANGED <<db, fin, fout>>

\* One iteration of the loop of import_to_db, lines 601-677.
ImportPosting ==
    /\ pc = "import"
    /\ run.i <= Len(run.parsed)
    /\ LET j == run.parsed[run.i]
           existing == Existing(conn.store, j.source_id)
       IN  IF existing # {}
           THEN \E e \in existing :
                /\ conn' = [conn EXCEPT !.store =
                              WriteChildRows(UpdateJob(@, e.id, run.now), e.id, j)]
                /\ run' = [run EXCEPT !.i = @ + 1, !.updated = @ + 1]
                /\ outcomes' = Append(outcomes,
                        [source_id |-> j.source_id, outcome |-> "updated",
                         job_db_id |-> e.id])
           ELSE LET job_db_id == NextRowId(conn.store.jobs)
                IN  /\ conn' = [conn EXCEPT !.store =
                                  WriteChildRows(
                                      InsertJob(@, j, run.company, run.url,
                                                run.industry, run.now),
                                      job_db_id, j)]
                    /\ run' = [run EXCEPT !.i = @ + 1, !.inserted = @ + 1]
                    /\ outcomes' = Append(outcomes,
                            [source_id |-> j.source_id, outcome |-> "inserted",
                             job_db_id |-> job_db_id])
    /\ UNCHANGED <<db, pc, clock, runs, pre, ret, fin, fout>>

\* Variant: the writes made before the failing statement are committed.
ImportWriteFail_keepsWrites ==
    /\ pc = "import"
    /\ pc' = "failed"
    /\ db' = conn.store
    /\ conn' = Closed
    /\ ret' = Raised("sqlite3.Error")
    /\ UNCHANGED <<run, clock, runs, pre, outcomes, fin, fout>>

\* A statement of import_to_db raises sqlite3.Error: the exception leaves
\* the function, the connection is dropped and its transaction rolled back.
ImportWriteFail ==
    /\ pc = "import"
    /\ pc' = "failed"
    /\ conn' = Closed
    /\ ret' = Raised("sqlite3.Error")
    /\ UNCHANGED <<db, run, clock, runs, pre, outcomes, fin, fout>>

\* The end of import_to_db, lines 679-698: company upsert, commit, close.
ImportFinish ==
    /\ pc = "import"
    /\ run.i > Len(run.parsed)
    /\ db' = UpsertCompany(conn.store, run.company, run.url, run.industry,
                           Len(run.parsed), run.now)
    /\ conn' = Closed
    /\ pc' = "done"
    /\ ret' = Returned(run.inserted, run.updated)
    /\ UNCHANGED <<run, clock, runs, pre, outcomes, fin, fout>>

Next ==
    \/ \E company \in CompanyNames, url \in Urls, reimport \in BOOLEAN,
          dry_run \in BOOLEAN : MainStart(company, url, reimport, dry_run)
    \/ MainFetchFail
    \/ \E raw_jobs \in RawBatches : MainFetchProcess(raw_jobs)
    \/ \E jobs_data \in ParsedBatches, company \in CompanyNames, url \in Urls,
          dry_run \in BOOLEAN : ImportToDbCall(jobs_data, company, url, dry_run)
    \/ ImportPosting
    \/ ImportWriteFail
    \/ ImportFinish

Spec == Init /\ [][Next]_vars

\* ------------------------------------------ process_greenhouse_jobs alone
ProcessInit ==
    /\ StoreInit
    /\ fin \in SeqsUpTo(RawPostings, MaxRawBatch)
    /\ fout = Pending

ProcessCall ==
    /\ ~fout.done
    /\ LET res == process_greenhouse_jobs(fin)
       IN  fout' = [done |-> TRUE, raised |-> res.raised, parsed |-> res.parsed]
    /\ UNCHANGED <<fin, storeVars>>

ProcessNext == ProcessCall

SpecProcess == ProcessInit /\ [][ProcessNext]_vars

\* ----------------------------------------------------- parse_location alone
MaxLocs == 2

LocPieces ==
    { <<"Remote">>, <<" ", "REMOTE", " ">>, <<"remote", ",", " ", "US">>,
      <<"Anywhere">>, <<"New", " ", "York", ",", " ", "NY">>,
      <<"Austin", ",", "tx">>, <<"Berlin">>, <<"CA">>, <<>> }

RECURSIVE JoinWith(_, _)
JoinWith(pieces, sep) ==
    IF Len(pieces) = 1 THEN pieces[1]
    ELSE pieces[1] \o <<sep>> \o JoinWith(Tail(pieces), sep)

LocationInputs ==
    {JNULL} \cup
    {Text(JoinWith(ps, ";")) : ps \in UNION {[1..k -> LocPieces] : k \in 1..MaxLocs}}

NotCalled == [done |-> FALSE, value |-> NULL]
Result(v) == [done |-> TRUE, value |-> v]

LocationInit ==
    /\ StoreInit
    /\ fin \in LocationInputs
    /\ fout = NotCalled

LocationCall ==
    /\ ~fout.done
    /\ fout' = Result(parse_location(fin))
    /\ UNCHANGED <<fin, storeVars>>

LocationNext == LocationCall

SpecLocation == LocationInit /\ [][LocationNext]_vars

\* ------------------------------------------- specification: extract_salary
\* Descriptions are put together from an amount, a separator and a second
\* amount, each amount with or without a trailing k, or from one amount
\* followed by OTE; some of the amounts are not numerals.
Amounts ==
    { <<"9", "0">>, <<"7", "0">>, <<"1", "5", "0", ",", "0", "0", "0">>,
      <<"1", ".", "5">>, <<"2", "5", "0">>, <<"9", "9", "9">>,
      <<"1", "0", "0", "0">>, <<"2", ".", "5">>, <<",">>,
      <<"1", ".", "2", ".", "3">> }

Separators == { <<"-">>, <<" ", "t", "o", " ">>, <<EN_DASH>> }

Suffixes == { <<>>, <<"k">> }

SalaryTexts ==
    { <<"$">> \o a \o ka \o sep \o <<"$">> \o b \o kb :
        <<a, b, sep, ka, kb>> \in Amounts \X Amounts \X Separators \X Suffixes \X Suffixes }
    \cup { <<"$">> \o a \o <<" ", "O", "T", "E">> : a \in Amounts }
    \cup { <<"u", "p", " ", "t", "o", " ", "$">> \o a : a \in Amounts }

SalaryInputs == {JNULL, Chars(<<>>)} \cup {Chars(t) : t \in SalaryTexts}

SalaryInit ==
    /\ StoreInit
    /\ fin \in SalaryInputs
    /\ fout = NotCalled

SalaryCall ==
    /\ ~fout.done
    /\ fout' = Result(extract_salary(fin))
    /\ UNCHANGED <<fin, storeVars>>

SalaryNext == SalaryCall

SpecSalary == SalaryInit /\ [][SalaryNext]_vars

\* --------------------------------------- specification: classify_seniority
\* Titles are up to MaxTitle pieces joined by spaces.
MaxTitle == 3

TitlePieces ==
    { <<"Senior">>, <<"Director">>, <<"Manager">>, <<"VP">>, <<"Staff">>,
      <<"Sr", ".">>, <<"Head", " ", "of">>, <<"Engineer">>, <<"Associate">>,
      <<"Co", "Director">>, <<"Vice", " ", "President">> }

Titles == {JoinWith(ps, " ") : ps \in UNION {[1..k -> TitlePieces] : k \in 1..MaxTitle}}

SeniorityInit ==
    /\ StoreInit
    /\ fin \in Titles
    /\ fout = NotCalled

SeniorityCall ==
    /\ ~fout.done
    /\ fout' = Result(classify_seniority(fin))
    /\ UNCHANGED <<fin, storeVars>>

SeniorityNext == SeniorityCall

SpecSeniority == SeniorityInit /\ [][SeniorityNext]_vars

\* --------------------------------------- specification: classify_function
Departments ==
    { JNULL, Text(<<>>), Text(<<"Confidential">>), Text(<<" ", "Sales", " ">>),
      Text(<<"Engineering">>), Text(<<"Growth">>), Text(<<" ">>),
      Text(<<"customer", " ", "success">>) }

FunctionPieces ==
    { <<"Staff">>, <<"Software">>, <<"Engineer">>, <<"Sales">>,
      <<"Data", " ", "Scientist">>, <<"Product", " ", "Manager">>,
      <<"Designer">>, <<"Growth">> }

FunctionTitles ==
    {JoinWith(ps, " ") : ps \in UNION {[1..k -> FunctionPieces] : k \in 1..MaxTitle}}

FunctionInit ==
    /\ StoreInit
    /\ fin \in [department_name : Departments, title : FunctionTitles]
    /\ fout = NotCalled

FunctionCall ==
    /\ ~fout.done
    /\ fout' = Result(classify_function(fin.department_name, fin.title))
    /\ UNCHANGED <<fin, storeVars>>

FunctionNext == FunctionCall

SpecFunction == FunctionInit /\ [][FunctionNext]_vars

\* ---------------------------------------------- specification: detect_ai
MaxBody == 2

AiTitles ==
    { <<"Engineer">>, <<"ML", " ", "Engineer">>, <<"AI", " ", "Engineer">>,
      <<"Prompt", " ", "Engineer">>, <<"Sales", " ", "Manager">>,
      <<"LLM", "s", " ", "Engineer">> }

BodyPieces ==
    { <<"AI">>, <<"ai">>, <<"Machine", " ", "Learning">>,
      <<"machine", " ", "learning">>, <<"ML", " ", "Engineer">>,
      <<"AI", "-", "native">>, <<"tools">>, <<"LLM">> }

Bodies ==
    {<<>>} \cup {JoinWith(ps, " ") : ps \in UNION {[1..k -> BodyPieces] : k \in 1..MaxBody}}

AiInit ==
    /\ StoreInit
    /\ fin \in [title : AiTitles, description : Bodies]
    /\ fout = NotCalled

AiCall ==
    /\ ~fout.done
    /\ \E r \in detect_ai(fin.title, fin.description) : fout' = Result(r)
    /\ UNCHANGED <<fin, storeVars>>

AiNext == AiCall

SpecAi == AiInit /\ [][AiNext]_vars

\* Two calls with the same title and two descriptions.
PairBodies == {<<>>} \cup BodyPieces

AiPairInit ==
    /\ StoreInit
    /\ fin \in [title : AiTitles, d1 : PairBodies, d2 : PairBodies]
    /\ fout = NotCalled

AiPairCall ==
    /\ ~fout.done
    /\ \E r1 \in detect_ai(fin.title, fin.d1) :
        \E r2 \in detect_ai(fin.title, fin.d2) :
            fout' = Result(<<r1, r2>>)
    /\ UNCHANGED <<fin, storeVars>>

AiPairNext == AiPairCall

SpecAiPair == AiPairInit /\ [][AiPairNext]_vars

\* ------------------------------------- specification: the tagging engines
\* Both engines are run over one taxonomy and one posting.  The taxonomies
\* are the two tables above, one that lists a tag_id under two categories,
\* and ones with a rule whose pattern "(" re cannot compile.
MaxWords == 2

Uncompilable(src) == [ok |-> FALSE, alts |-> {}, src |-> src]

RepeatedId ==
    << [cat |-> "hiring_signals",
        rules |-> << [id |-> "immediate", pat |-> Pat({"urgent"})] >>],
       [cat |-> "comp_signals",
        rules |-> << [id |-> "immediate", pat |-> Pat({"urgent", "asap"})],
                     [id |-> "equity", pat |-> Pat({"equity"})] >>] >>

BrokenRule ==
    << [cat |-> "hiring_signals",
        rules |-> << [id |-> "broken", pat |-> Uncompilable("(")],
                     [id |-> "immediate", pat |-> Pat({"urgent", "asap"})] >>],
       [cat |-> "comp_signals",
        rules |-> << [id |-> "equity", pat |-> Pat({"equity"})] >>] >>

BrokenRepeated ==
    << [cat |-> "hiring_signals",
        rules |-> << [id |-> "immediate", pat |-> Uncompilable("(")] >>],
       [cat |-> "comp_signals",
        rules |-> << [id |-> "immediate", pat |-> Pat({"urgent", "asap"})] >>] >>

Taxonomies == {SIGNAL_PATTERNS, TOOL_PATTERNS, RepeatedId, BrokenRule, BrokenRepeated}

TagWords == {"Urgent", "asap", "equity", "Python", "(", "hire"}

TagTexts == UNION {[1..k -> TagWords] : k \in 0..MaxWords}

TagInit ==
    /\ StoreInit
    /\ fin \in [tax : Taxonomies, title : {<<"Engineer">>, <<"Urgent">>},
                description : TagTexts]
    /\ fout = NotCalled

TagCall ==
    /\ ~fout.done
    /\ fout' = Result([signals |-> ExtractSignalsWith(fin.tax, fin.title, fin.description),
                       tools |-> ExtractToolsWith(fin.tax, fin.title, fin.description)])
    /\ UNCHANGED <<fin, storeVars>>

TagNext == TagCall

SpecTags == TagInit /\ [][TagNext]_vars

\* --------------------------- specification: the timestamp of one posting
\* process_greenhouse_jobs is run on one posting whose updated_at is an
\* ISO-8601 string (a day, an hour of the day and a UTC offset in hours), a
\* string that does not parse, or absent.
MaxDay == 2

HoursOfDay == 0..23
Offsets == {-5, 0, 2}

Letters ==
    << "a", "b", "c", "d", "e", "f", "g", "h", "i", "j", "k",
       "l", "m", "n", "o", "p", "q", "r", "s", "t", "u" >>

Timestamps ==
    {Iso(day, hour, off) : day \in 1..MaxDay, hour \in HoursOfDay, off \in Offsets}
    \cup {Chars(SubSeq(Letters, 1, n)) : n \in {0, 4, 18, 19, 20, 21}}
    \cup {MISSING, JNULL}

DateInit ==
    /\ StoreInit
    /\ \E updated \in Timestamps :
         fin = << [id |-> Num(1), title |-> Text(<<"Engineer">>),
                   updated_at |-> updated, content |-> JNULL] >>
    /\ fout = Pending

DateCall ==
    /\ ~fout.done
    /\ LET res == process_greenhouse_jobs(fin)
       IN  fout' = [done |-> TRUE, raised |-> res.raised, parsed |-> res.parsed]
    /\ UNCHANGED <<fin, storeVars>>

DateNext == DateCall

SpecDate == DateInit /\ [][DateNext]_vars

\* ---------------------------------------------------------------- claims
\* The step of import_to_db that handles posting run.i, the posting it
\* handles and the stored rows that carry its key.
IsImportStep == pc = "import" /\ pc' = "import" /\ run'.i = run.i + 1
Posting == run.parsed[run.i]
Hits == {r \in conn.store.jobs :
            r.source = "greenhouse" /\ r.source_id = Posting.source_id}
JobIds(store) == {r.id : r \in store.jobs}
SignalsOf(store, id) == {r \in store.job_signals : r.job_id = id}
ToolsOf(store, id) == {r \in store.job_tools : r.job_id = id}

UniqueKey(store) ==
    \A a, b \in store.jobs :
        (a.source = b.source /\ a.source_id = b.source_id) => a = b

C1_Step ==
    IsImportStep =>
        IF Hits # {}
        THEN /\ run'.updated = run.updated + 1
             /\ run'.inserted = run.inserted
             /\ outcomes'[run.i].outcome = "updated"
             /\ JobIds(conn'.store) = JobIds(conn.store)
        ELSE /\ run'.inserted = run.inserted + 1
             /\ run'.updated = run.updated
             /\ outcomes'[run.i].outcome = "inserted"
             /\ JobIds(conn.store) \subseteq JobIds(conn'.store)
             /\ Cardinality(conn'.store.jobs) = Cardinality(conn.store.jobs) + 1

\* C1: the committed store and the store as the open connection sees it
\* hold at most one job row per (source, source_id); a posting whose pair is
\* stored is counted as updated and adds no job row, a posting whose pair is
\* not stored is counted as inserted and adds exactly one job row.
C1_OneRowPerKey ==
    /\ [](UniqueKey(db) /\ UniqueKey(conn.store))
    /\ [][C1_Step]_vars

\* A run whose batch held the same source_id twice has returned (1, 1) and
\* left one job row.
C1_Witness ==
    /\ pc = "done" /\ ret.kind = "ok"
    /\ Len(run.parsed) = 2
    /\ run.parsed[1].source_id = run.parsed[2].source_id
    /\ ret.inserted = 1 /\ ret.updated = 1
    /\ Cardinality(db.jobs) = 1

C2_Step ==
    IsImportStep =>
        \A r \in Hits :
            \E r2 \in conn'.store.jobs :
                /\ r2.id = r.id
                /\ [r2 EXCEPT !.last_seen = r.last_seen,
                              !.is_active = r.is_active] = r

\* C2: a posting whose (source, source_id) is stored leaves every field of
\* the stored job row as it was, except last_seen and is_active.
C2_UpdateKeepsFields == [][C2_Step]_vars

\* An update has been made by a later run with a posting whose title and
\* description differ from the stored ones; the row still has the old ones.
C2_Witness ==
    /\ pc = "import" /\ run.i = 2
    /\ outcomes[1].outcome = "updated"
    /\ \E r \in conn.store.jobs :
        /\ r.id = outcomes[1].job_db_id
        /\ r.title # run.parsed[1].title
        /\ r.description_raw # run.parsed[1].description
        /\ r.company_name # run.company
        /\ r.date_scraped < run.now
        /\ r.last_seen = run.now

C3_Step ==
    IsImportStep =>
        \A r \in Hits :
            /\ SignalsOf(conn'.store, r.id) = SignalsOf(conn.store, r.id)
            /\ ToolsOf(conn'.store, r.id) = ToolsOf(conn.store, r.id)

\* C3: a posting whose (source, source_id) is stored leaves the job_signals
\* and job_tools rows of that job as they were.
C3_UpdateWritesNoChildRows == [][C3_Step]_vars

IsSentinelSignal(r) == r.signal_type = "_none" /\ r.signal_id = "_none"
IsSentinelTool(r) == r.tool_category = "_none" /\ r.tool_id = "_none"

C4_Step ==
    (IsImportStep /\ Hits = {}) =>
        \A n \in conn'.store.jobs \ conn.store.jobs :
            LET sigs == SignalsOf(conn'.store, n.id)
                tools == ToolsOf(conn'.store, n.id)
                j == Posting
            IN  /\ IF j.signals = <<>>
                   THEN /\ Cardinality(sigs) = 1
                        /\ \A r \in sigs : IsSentinelSignal(r)
                   ELSE /\ Cardinality(sigs) = Len(j.signals)
                        /\ \A r \in sigs : ~IsSentinelSignal(r)
                        /\ \A k \in 1..Len(j.signals) :
                            \E r \in sigs :
                                /\ r.signal_type = j.signals[k].signal_type
                                /\ r.signal_id = j.signals[k].signal_id
                /\ IF j.tools = <<>>
                   THEN /\ Cardinality(tools) = 1
                        /\ \A r \in tools : IsSentinelTool(r)
                   ELSE /\ Cardinality(tools) = Len(j.tools)
                        /\ \A r \in tools : ~IsSentinelTool(r)
                        /\ \A k \in 1..Len(j.tools) :
                            \E r \in tools :
                                /\ r.tool_category = j.tools[k].tool_category
                                /\ r.tool_id = j.tools[k].tool_id
                /\ sigs # {} /\ tools # {}

\* C4: the insert of a new job writes, for signals and for tools, one row
\* per detected tag and no sentinel when the list is non-empty, and exactly
\* one row, the "_none" sentinel, when it is empty.
C4_ChildRowsOfInsert == [][C4_Step]_vars

\* Two jobs have been inserted in one run, the first with no signal and no
\* tool, the second with a signal and a tool.
C4_Witness ==
    /\ pc = "import" /\ run.i = 3
    /\ outcomes[1].outcome = "inserted" /\ outcomes[2].outcome = "inserted"
    /\ run.parsed[1].signals = <<>> /\ run.parsed[1].tools = <<>>
    /\ run.parsed[2].signals # <<>> /\ run.parsed[2].tools # <<>>

IsWipeStep == Resting /\ pc' = "fetch" /\ run'.reimport /\ ~run'.dry_run

C5_Step ==
    IsWipeStep =>
        LET normalized == Normalize(run'.company)
            gone == {r.id : r \in {x \in db.jobs :
                                    x.company_name_normalized = normalized}}
        IN  /\ \A r \in db'.jobs : r.company_name_normalized # normalized
            /\ \A r \in db'.job_signals : r.job_id \notin gone
            /\ \A r \in db'.job_tools : r.job_id \notin gone
            /\ run'.deleted = Cardinality(db.jobs \ db'.jobs)
            /\ run'.deleted = Cardinality(gone)

\* C5: delete_company_data(X) leaves no job row of the normalized name of X
\* and no child row of such a job, and returns the number of job rows removed.
C5_WipeRemovesCompany == [][C5_Step]_vars

\* A wipe has removed rows that were stored under another spelling of the
\* company's name, and rows of another company remain.
C5_Witness ==
    /\ pc = "fetch" /\ run.reimport /\ ~run.dry_run
    /\ run.deleted >= 1
    /\ \E r \in pre.jobs :
        /\ r.company_name # run.company
        /\ r.company_name_normalized = Normalize(run.company)
    /\ db.jobs # {}

\* The posting handled by this step was stored for the company of the run
\* when the run began.
StoredForCompanyBefore ==
    \E r \in pre.jobs :
        /\ r.source = "greenhouse" /\ r.source_id = Posting.source_id
        /\ r.company_name_normalized = Normalize(run.company)

FirstInBatch ==
    \A k \in 1..(run.i - 1) : run.parsed[k].source_id # Posting.source_id

\* The posting of this step has been inserted as a new row of this run.
InsertedFresh ==
    /\ outcomes'[run.i].outcome = "inserted"
    /\ \E n \in conn'.store.jobs \ conn.store.jobs :
        /\ n.id = outcomes'[run.i].job_db_id
        /\ n.source_id = Posting.source_id
        /\ n.date_scraped = run.now /\ n.last_seen = run.now
        /\ n.title = Posting.title
        /\ n.description_raw = Posting.description
        /\ n.date_posted = Posting.date_posted
        /\ n.company_name = run.company
        /\ SignalsOf(conn.store, n.id) = {}
        /\ ToolsOf(conn.store, n.id) = {}
        /\ SignalsOf(conn'.store, n.id) # {}
        /\ ToolsOf(conn'.store, n.id) # {}

IsReimportRun == run.via = "main" /\ run.reimport /\ ~run.dry_run

\* While a reimport run writes, every job row of its company is a row of
\* this run: the wipe came before the first insert.
WipedBeforeInsert ==
    (pc = "import" /\ IsReimportRun) =>
        \A r \in conn.store.jobs :
            r.company_name_normalized = Normalize(run.company)
                => r.date_scraped = run.now

C6_StepOriginal ==
    (IsImportStep /\ IsReimportRun /\ StoredForCompanyBefore) => InsertedFresh

\* C6 as stated: in a reimport run every posting of the batch that was
\* stored for the company before the run is handled as an insert, with
\* first-seen and last-seen of this run, the fields of its own enrichment
\* and fresh child rows.
C6_EveryPostingReinserted == [](WipedBeforeInsert) /\ [][C6_StepOriginal]_vars

C6_Step ==
    (IsImportStep /\ IsReimportRun /\ StoredForCompanyBefore /\ FirstInBatch)
        => InsertedFresh

\* C6 as amended: in a reimport run the wipe precedes every insert, and the
\* first posting of the batch with a given source_id that was stored for the
\* company before the run is handled as an insert, with first-seen and
\* last-seen of this run, the fields of its own enrichment and fresh child
\* rows.
C6_FirstOccurrenceReinserted == [](WipedBeforeInsert) /\ [][C6_Step]_vars

\* A reimport run has re-inserted a posting that an earlier run had stored
\* for the same company with other text.
C6_Witness ==
    /\ pc = "import" /\ IsReimportRun /\ run.i = 2
    /\ outcomes[1].outcome = "inserted"
    /\ \E r \in pre.jobs :
        /\ r.source_id = run.parsed[1].source_id
        /\ r.company_name_normalized = Normalize(run.company)
        /\ r.title # run.parsed[1].title
        /\ r.date_scraped < run.now
    /\ \E n \in conn.store.jobs :
        /\ n.source_id = run.parsed[1].source_id
        /\ n.title = run.parsed[1].title
        /\ n.date_scraped = run.now

Keys(store) == {<<r.source, r.source_id>> : r \in store.jobs}

AllActive(store) == \A r \in store.jobs : r.is_active = 1

C7_Step ==
    /\ ~IsWipeStep => Keys(db) \subseteq Keys(db')
    /\ (pc = "import" /\ pc' = "import") => Keys(conn.store) \subseteq Keys(conn'.store)
    /\ (pc = "import" /\ pc' = "done") => Keys(conn.store) \subseteq Keys(db')
    /\ Keys(db') \ Keys(db) # {} => (pc = "import" /\ pc' = "done")
    /\ IsImportStep => \A r \in conn'.store.jobs :
                          r.source_id = Posting.source_id => r.is_active = 1

\* C7: a stored (source, source_id) leaves the committed store only in the
\* wipe of a reimport and enters it only at the commit of an import; no
\* step of an import removes a job row, and every job row is active.
C7_Lifecycle == [](AllActive(db) /\ AllActive(conn.store)) /\ [][C7_Step]_vars

\* A third run has committed after a wipe removed a pair that two earlier
\* runs had inserted and then updated.
C7_Witness ==
    /\ pc = "done" /\ IsReimportRun /\ runs = 3
    /\ run.deleted >= 1
    /\ \E r \in pre.jobs : r.date_scraped < r.last_seen
    /\ Keys(pre) \ Keys(db) # {}

CompanyRows(store, name) ==
    {c \in store.companies : c.name_normalized = Normalize(name)}

ImportReturned == pc = "done" /\ ret.kind = "ok" /\ ~run.dry_run

C8_Done ==
    ImportReturned =>
        /\ Cardinality(CompanyRows(db, run.company)) = 1
        /\ \A c \in CompanyRows(db, run.company) :
            c.total_job_postings = Len(run.parsed)

C8_Step ==
    (pc = "import" /\ pc' = "done") =>
        /\ \A c \in conn.store.companies :
            \E c2 \in db'.companies :
                /\ c2.id = c.id /\ c2.name = c.name /\ c2.url = c.url
                /\ c2.name_normalized = c.name_normalized
        /\ Cardinality(db'.companies) =
            Cardinality(conn.store.companies)
                + (IF CompanyRows(conn.store, run.company) = {} THEN 1 ELSE 0)

\* C8: when a non-dry-run import_to_db has returned, the companies table
\* holds exactly one row of the company's normalized name and its
\* total_job_postings is the length of this run's batch; the upsert keeps
\* the rows that exist and adds one only when the company has none.
C8_CompanyAggregate == [](C8_Done) /\ [][C8_Step]_vars

\* An import of an empty batch has returned for a company whose row an
\* earlier run created under another spelling with a count of 2.
C8_Witness ==
    /\ ImportReturned /\ run.parsed = <<>>
    /\ \E c \in CompanyRows(pre, run.company) :
        /\ c.total_job_postings = 2
        /\ c.name # run.company
    /\ \E c \in CompanyRows(db, run.company) : c.total_job_postings = 0

C9_Step ==
    /\ run'.dry_run => (db' = db /\ conn' = conn /\ ~conn'.open)
    /\ (Resting /\ run'.dry_run /\ run'.via = "import_to_db")
            => (pc' = "done" /\ ret' = Returned(0, 0))

\* C9: no step of a dry run changes the committed store or opens a
\* connection, with or without the reimport flag, and import_to_db called
\* with dry_run returns (0, 0).
C9_DryRunWritesNothing ==
    [](run.dry_run => (db = pre /\ ~conn.open)) /\ [][C9_Step]_vars

\* A dry run with the reimport flag has finished for a company that has
\* job rows in the store.
C9_Witness ==
    /\ pc = "done" /\ run.via = "main" /\ run.dry_run /\ run.reimport
    /\ run.parsed # <<>>
    /\ \E r \in db.jobs : r.company_name_normalized = Normalize(run.company)

RECURSIVE EnrichedGood(_)
EnrichedGood(raw_jobs) ==
    IF raw_jobs = <<>> THEN <<>>
    ELSE IF EnrichError(Head(raw_jobs)) # NULL THEN EnrichedGood(Tail(raw_jobs))
         ELSE <<Enrich(Head(raw_jobs))>> \o EnrichedGood(Tail(raw_jobs))

\* C10: process_greenhouse_jobs raises nothing for a posting whose
\* enrichment fails; it returns the enriched records of all other postings
\* of the batch, in order.
C10_BadPostingSkipped ==
    fout.done => (fout.raised = NULL /\ fout.parsed = EnrichedGood(fin))

HasSemicolon(location_str) ==
    location_str.kind = "text"
        /\ \E i \in 1..Len(location_str.words) : location_str.words[i] = ";"

\* C11: parse_location returns is_remote exactly when location_type is
\* "remote"; a remote result has no metro and no state; the result is
\* remote exactly when the whole string, lower-cased and trimmed, is one of
\* the remote indicators, so never for a string with several ";" entries.
C11_RemoteExactMatch ==
    fout.done =>
        LET r == fout.value
        IN  /\ r.is_remote = (r.location_type = "remote")
            /\ r.is_remote => (r.metro = NULL /\ r.state = NULL)
            /\ r.is_remote =
                (fin.kind = "text"
                    /\ Strip(LowerText(fin.words)) \in REMOTE_STRINGS)
            /\ HasSemicolon(fin) => ~r.is_remote

\* A string whose first entry is "Remote" and whose second entry names a
\* city and a state has been parsed as onsite with that metro and state.
C11_Witness ==
    /\ fout.done
    /\ fin = Text(<<"Remote", ";", "New", " ", "York", ",", " ", "NY">>)
    /\ fout.value = LocationResult("onsite", "New York Metro", "NY", FALSE)

\* C12: for every input the remote test does not catch, the empty and the
\* missing string included, parse_location returns location_type "onsite".
C12_OnsiteWhenNotRemote ==
    fout.done =>
        (fout.value.location_type # "remote"
            => fout.value.location_type = "onsite")

\* The groups captured by the first of SALARY_PATTERNS that matches the
\* description, <<>> when none does.
RECURSIVE FirstMatch(_, _)
FirstMatch(patterns, text) ==
    IF patterns = <<>> THEN <<>>
    ELSE LET match == SearchFrom(Head(patterns), text, 1)
         IN  IF match.ok THEN match.groups ELSE FirstMatch(Tail(patterns), text)

Captured(description_text) ==
    IF description_text.kind # "str" THEN <<>>
    ELSE FirstMatch(SALARY_PATTERNS, description_text.chars)

\* C13: for every text extract_salary returns either (null, null) or two
\* numbers with min <= max; a match with two values returns the smaller and
\* the larger of them after each value below 1000 is multiplied by 1000, and
\* a match with the single OTE value v returns (round(0.6 * v), round(v)).
C13_SalaryPair ==
    fout.done =>
        LET r == fout.value
            groups == Captured(fin)
        IN  /\ r.kind = "ok"
            /\ \/ r.min = NoneValue /\ r.max = NoneValue
               \/ /\ r.min.kind = "number" /\ r.max.kind = "number"
                  /\ ~Less(r.max, r.min)
            /\ Len(groups) = 2 =>
                    /\ r.min \in {Scaled(groups[1]), Scaled(groups[2])}
                    /\ r.max \in {Scaled(groups[1]), Scaled(groups[2])}
                    /\ ~Less(Scaled(groups[1]), r.min) /\ ~Less(Scaled(groups[2]), r.min)
                    /\ ~Less(r.max, Scaled(groups[1])) /\ ~Less(r.max, Scaled(groups[2]))
            /\ Len(groups) = 1 =>
                    /\ r.min = Round(Times(Scaled(groups[1]), Value(6, 10)))
                    /\ r.max = Round(Scaled(groups[1]))

\* C13, the part the code keeps: the same statement for the descriptions
\* whose captured groups are numerals.
C13_SalaryPairOfNumerals ==
    (fout.done /\ \A i \in 1..Len(Captured(fin)) : IsFloat(RemoveCommas(Captured(fin)[i]))) =>
        LET r == fout.value
            groups == Captured(fin)
        IN  /\ r.kind = "ok"
            /\ \/ r.min = NoneValue /\ r.max = NoneValue
               \/ /\ r.min.kind = "number" /\ r.max.kind = "number"
                  /\ ~Less(r.max, r.min)
            /\ (groups = <<>>) <=> (r.min = NoneValue)

\* "$90–$70k" gives (70000, 90000), "$250 OTE" gives (150000, 250000).
C13_SwappedRange ==
    /\ fin = Chars(<<"$", "9", "0", EN_DASH, "$", "7", "0", "k">>)
    /\ fout = Result(SalaryReturned(Value(70000, 1), Value(90000, 1)))

C13_Ote ==
    /\ fin = Chars(<<"$", "2", "5", "0", " ", "O", "T", "E">>)
    /\ fout = Result(SalaryReturned(Value(150000, 1), Value(250000, 1)))

C13_Raises ==
    /\ fin = Chars(<<"$", ",", "-", "$", "9", "0">>)
    /\ fout = Result(SalaryRaised("ValueError"))

SeniorityTiers ==
    {"c_level", "evp", "svp", "vp", "senior_director", "director", "head",
     "senior_manager", "manager", "senior", "associate", "entry", "mid"}

SetMin(S) == CHOOSE m \in S : \A x \in S : m <= x

\* The rules of SENIORITY_RULES whose pattern matches the lower-cased title.
MatchingRules(title) ==
    {i \in 1..Len(SENIORITY_RULES) :
        SearchPhrases(SENIORITY_RULES[i].alts, LowerText(title))}

DepartmentKey(department_name) ==
    IF department_name.kind = "text" THEN Strip(LowerText(department_name.words))
    ELSE <<>>

MatchingTitleRules(title) ==
    {i \in 1..Len(TITLE_TO_FUNCTION) :
        SearchPhrases(TITLE_TO_FUNCTION[i].alts, LowerText(title))}

\* C15: classify_function returns the department table's function whenever
\* the lower-cased, trimmed department name is in the table, whatever the
\* title says; otherwise the function of the first title rule that matches
\* the lower-cased title, and "other" when none matches.
C15_DepartmentBeforeTitle ==
    fout.done =>
        LET key == DepartmentKey(fin.department_name)
            matching == MatchingTitleRules(fin.title)
        IN  /\ key \in DepartmentKeys => fout.value = DepartmentFunction(key)
            /\ (key \notin DepartmentKeys /\ matching # {}) =>
                    fout.value = TITLE_TO_FUNCTION[SetMin(matching)].func
            /\ (key \notin DepartmentKeys /\ matching = {}) => fout.value = "other"
            /\ (fin.department_name = Text(<<"Confidential">>)) => fout.value = "other"
            /\ (fin.department_name = JNULL
                    /\ fin.title = <<"Staff", " ", "Software", " ", "Engineer">>) =>
                    fout.value = "engineering"

\* A confidential department with an engineering title has been classified
\* "other".
C15_Witness ==
    /\ fin.department_name = Text(<<"Confidential">>)
    /\ fin.title = <<"Staff", " ", "Software", " ", "Engineer">>
    /\ MatchingTitleRules(fin.title) = {1}
    /\ fout = Result("other")

\* A posting without department has been classified by its title.
C15_WitnessTitle ==
    /\ fin.department_name = JNULL
    /\ fin.title = <<"Staff", " ", "Software", " ", "Engineer">>
    /\ fout = Result("engineering")

\* C16: is_ai_native_role depends on the title only: two calls with the
\* same title and any two descriptions return the same is_ai_native_role.
C16_NativeFromTitleOnly ==
    fout.done => fout.value[1].is_ai_native_role = fout.value[2].is_ai_native_role

\* The title is no native role, the second description is a word of the
\* native-role vocabulary; neither
\* call reports a native role, and has_ai_mention differs between them.
C16_Witness ==
    /\ fout.done
    /\ fin.title = <<"Sales", " ", "Manager">>
    /\ fin.d1 = <<"tools">>
    /\ fin.d2 = <<"LLM">>
    /\ ~fout.value[1].is_ai_native_role /\ ~fout.value[2].is_ai_native_role
    /\ fout.value[1].has_ai_mention # fout.value[2].has_ai_mention

\* The terms of the AI vocabulary that match in title + " " + description:
\* the matches of AI_TERMS in lower case, whichever alternative made them.
EveryAlternative == [i \in 1..Len(AI_TERMS) |-> [AI_TERMS[i] EXCEPT !.group = TRUE]]

MatchedTerms(title, description) ==
    LET found == FindAll(EveryAlternative, title \o <<" ">> \o description, 1)
    IN  {LowerText(found[i]) : i \in 1..Len(found)}

\* C17: ai_terms_found is null exactly when has_ai_mention is false; when
\* has_ai_mention is true it lists each distinct term of the AI vocabulary
\* that matched in title+description, the standalone word "AI" included,
\* each term once.
C17_TermsListed ==
    fout.done =>
        LET r == fout.value
            terms == MatchedTerms(fin.title, fin.description)
        IN  /\ (r.ai_terms_found = NoneValue) <=> ~r.has_ai_mention
            /\ r.has_ai_mention =>
                /\ {LowerText(r.ai_terms_found.items[i]) :
                        i \in 1..Len(r.ai_terms_found.items)} = terms
                /\ Len(r.ai_terms_found.items) = Cardinality(terms)

\* C17, the part the code keeps: null exactly when nothing matched, and
\* every listed item is a matched term or the empty string.
C17_NullIffNoMention ==
    fout.done =>
        LET r == fout.value
            terms == MatchedTerms(fin.title, fin.description)
        IN  /\ (r.ai_terms_found = NoneValue) <=> ~r.has_ai_mention
            /\ r.has_ai_mention <=> terms # {}
            /\ r.has_ai_mention =>
                \A i \in 1..Len(r.ai_terms_found.items) :
                    \/ r.ai_terms_found.items[i] = <<>>
                    \/ LowerText(r.ai_terms_found.items[i]) \in terms

\* The standalone word "AI" is reported as the empty string.
C17_StandaloneAiLost ==
    /\ fin.title = <<"Engineer">>
    /\ fin.description = <<"AI">>
    /\ fout = Result(AiResult(TRUE, Joined(<< <<>> >>), FALSE))

\* The tag_ids of a list of tags, in order.
SignalIds(tags) == [i \in 1..Len(tags) |-> tags[i].signal_id]
ToolIds(tags) == [i \in 1..Len(tags) |-> tags[i].tool_id]

NoRepeat(ids) == \A i, j \in 1..Len(ids) : ids[i] = ids[j] => i = j

\* The categories of a taxonomy, in iteration order, that list tag_id with
\* a pattern that matches the words of the posting.
MatchingCategories(tax, id, text) ==
    {c \in 1..Len(tax) :
        \E k \in 1..Len(tax[c].rules) :
            /\ tax[c].rules[k].id = id
            /\ tax[c].rules[k].pat.ok
            /\ Search(tax[c].rules[k].pat, text)}

\* C18: in both engines and for any taxonomy the returned list holds at most
\* one tag per tag_id, also when the tag_id is listed under more than one
\* category; the tag then carries the first such category.
C18_OneTagPerId ==
    fout.done =>
        LET text == fin.title \o fin.description
        IN  /\ NoRepeat(SignalIds(fout.value.signals))
            /\ NoRepeat(ToolIds(fout.value.tools))
            /\ \A i \in 1..Len(fout.value.tools) :
                 LET tag == fout.value.tools[i]
                     cats == MatchingCategories(fin.tax, tag.tool_id, text)
                 IN  cats # {} /\ tag.tool_category = fin.tax[SetMin(cats)].cat
            /\ \A i \in 1..Len(fout.value.signals) :
                 LET tag == fout.value.signals[i]
                     cats == MatchingCategories(fin.tax, tag.signal_id, text)
                 IN  cats # {} /\ tag.signal_type = fin.tax[SetMin(cats)].cat

\* C18, the part the code keeps: extract_tools returns one tag per tag_id,
\* with the first category whose pattern for it matches.
C18_ToolsOneTagPerId ==
    fout.done =>
        LET text == fin.title \o fin.description
        IN  /\ NoRepeat(ToolIds(fout.value.tools))
            /\ \A i \in 1..Len(fout.value.tools) :
                 LET tag == fout.value.tools[i]
                     cats == MatchingCategories(fin.tax, tag.tool_id, text)
                 IN  cats # {} /\ tag.tool_category = fin.tax[SetMin(cats)].cat

\* extract_signals has returned two tags with one signal_id.
C18_SignalTaggedTwice ==
    /\ fout.done
    /\ fin.tax = RepeatedId
    /\ fin.description = <<"Urgent">>
    /\ SignalIds(fout.value.signals) = <<"immediate", "immediate">>
    /\ ToolIds(fout.value.tools) = <<"immediate">>

\* A taxonomy without its rules whose pattern cannot be compiled.
RECURSIVE CompilableRules(_)
CompilableRules(rules) ==
    IF rules = <<>> THEN <<>>
    ELSE IF Head(rules).pat.ok THEN <<Head(rules)>> \o CompilableRules(Tail(rules))
    ELSE CompilableRules(Tail(rules))

WithoutBrokenRules(tax) ==
    [c \in 1..Len(tax) |-> [cat |-> tax[c].cat, rules |-> CompilableRules(tax[c].rules)]]

HasBrokenRule(tax) ==
    \E c \in 1..Len(tax) : \E k \in 1..Len(tax[c].rules) : ~tax[c].rules[k].pat.ok

\* C19: in both engines a rule whose pattern cannot be compiled is skipped:
\* it produces no tag, nothing is raised, and the other rules are tagged as
\* they would be without the bad rule.
C19_BrokenRuleSkipped ==
    fout.done =>
        /\ fout.value.signals =
             ExtractSignalsWith(WithoutBrokenRules(fin.tax), fin.title, fin.description)
        /\ fout.value.tools =
             ExtractToolsWith(WithoutBrokenRules(fin.tax), fin.title, fin.description)

\* C19, the part the code keeps: extract_tools skips the rule.
C19_ToolsSkipBrokenRule ==
    fout.done =>
        fout.value.tools =
            ExtractToolsWith(WithoutBrokenRules(fin.tax), fin.title, fin.description)

\* The posting contains the text of the broken pattern, and extract_signals
\* has tagged it with the broken rule; extract_tools has not.
C19_BrokenRuleTagged ==
    /\ fout.done
    /\ fin.tax = BrokenRule
    /\ fin.description = <<"(", "asap">>
    /\ SignalIds(fout.value.signals) = <<"broken", "immediate">>
    /\ ToolIds(fout.value.tools) = <<"immediate">>

\* The instant of an ISO-8601 timestamp, as day and hour in UTC.
UtcOf(u) ==
    LET hours == 24 * u.day + u.hour - u.off
    IN  [kind |-> "datetime", day |-> hours \div 24, hour |-> hours % 24]

\* C20: for every source timestamp that parses as ISO-8601, one with a
\* non-zero UTC offset included, date_posted is that instant in UTC; for a
\* string that does not parse, date_posted is its first 19 characters, and
\* the posting is still produced.
C20_DatePostedUtc ==
    fout.done =>
        LET updated == fin[1].updated_at
        IN  /\ updated.kind = "iso" =>
                /\ fout.raised = NULL /\ Len(fout.parsed) = 1
                /\ fout.parsed[1].date_posted = UtcOf(updated)
            /\ (updated.kind = "str" /\ updated.chars # <<>>) =>
                /\ fout.raised = NULL /\ Len(fout.parsed) = 1
                /\ fout.parsed[1].date_posted =
                     Chars([i \in 1..(IF Len(updated.chars) < 19 THEN Len(updated.chars) ELSE 19)
                              |-> updated.chars[i]])

\* C20, the part the code keeps: timestamps with offset zero are written
\* as they are, and a string that does not parse is cut to 19 characters.
C20_UtcWhenOffsetZero ==
    fout.done =>
        LET updated == fin[1].updated_at
        IN  /\ (updated.kind = "iso" /\ updated.off = 0) =>
                /\ fout.raised = NULL /\ Len(fout.parsed) = 1
                /\ fout.parsed[1].date_posted = UtcOf(updated)
            /\ (updated.kind = "str" /\ updated.chars # <<>>) =>
                /\ fout.raised = NULL /\ Len(fout.parsed) = 1
                /\ Len(fout.parsed[1].date_posted.chars) <= 19
                /\ \A i \in 1..Len(fout.parsed[1].date_posted.chars) :
                     fout.parsed[1].date_posted.chars[i] = updated.chars[i]

\* 23:00 at UTC-5 on day 1 is 04:00 UTC on day 2, and is written as 23:00
\* on day 1.
C20_WallClockWritten ==
    /\ fout.done
    /\ fin[1].updated_at = Iso(1, 23, -5)
    /\ UtcOf(fin[1].updated_at) = [kind |-> "datetime", day |-> 2, hour |-> 4]
    /\ fout.parsed[1].date_posted = [kind |-> "datetime", day |-> 1, hour |-> 23]

\* A string of 21 characters that does not parse is cut to 19.
C20_Truncated ==
    /\ fout.done
    /\ fin[1].updated_at = Chars(Letters)
    /\ fout.parsed[1].date_posted = Chars(SubSeq(Letters, 1, 19))

\* The committed store when the current run's import_to_db began: the store
\* at the start of the run, after the wipe when main made one.
StoreAtImportStart ==
    IF run.via = "main" /\ ShouldWipe(run.reimport, run.dry_run)
    THEN delete_company_data(pre, run.company).store
    ELSE pre

\* While import_to_db runs, and after it has failed, the committed store is
\* the one it started with.
C21_NothingCommittedEarly ==
    /\ pc = "import" => db = StoreAtImportStart
    /\ (pc = "failed" /\ ret = Raised("sqlite3.Error")) =>
            /\ db = StoreAtImportStart
            /\ ~conn.open

C21_Step ==
    \* the committed store changes at the wipe of main or at the one commit,
    \* which follows the last posting and carries every write of the run
    /\ db' # db =>
        \/ pc' = "fetch"
        \/ /\ pc = "import" /\ pc' = "done"
           /\ Len(outcomes) = Len(run.parsed)
           /\ ret' = Returned(run.inserted, run.updated)
           /\ \A k \in 1..Len(outcomes) :
                \E r \in db'.jobs :
                    r.id = outcomes[k].job_db_id /\ r.last_seen = run.now
           /\ \E c \in db'.companies :
                /\ c.name_normalized = Normalize(run.company)
                /\ c.updated_at = run.now
           /\ \A r \in db.jobs : r.last_seen # run.now
    \* a failure ends the run: the error is with the caller and no further
    \* posting is processed
    /\ (pc = "import" /\ pc' = "failed") =>
        /\ ret' = Raised("sqlite3.Error")
        /\ outcomes' = outcomes /\ db' = db
    /\ pc = "failed" => (outcomes' = outcomes \/ runs' = runs + 1)

\* C21: all writes of one import_to_db run are committed together by one
\* commit after the last posting and the company upsert; if a write fails
\* part-way, the error reaches the caller, no later posting is processed,
\* nothing is committed and the committed store has none of the run's
\* writes.
C21_SingleCommit == [](C21_NothingCommittedEarly) /\ [][C21_Step]_vars

\* A run has failed after its first posting was written and before its
\* second; the committed store is the one the run started with.
C21_Witness ==
    /\ pc = "failed"
    /\ ret = Raised("sqlite3.Error")
    /\ Len(run.parsed) = 2
    /\ Len(outcomes) = 1
    /\ pre # EmptyStore
    /\ db = pre

ReferentialIntegrity(store) ==
    /\ \A s \in store.job_signals : \E r \in store.jobs : r.id = s.job_id
    /\ \A t \in store.job_tools : \E r \in store.jobs : r.id = t.job_id
    /\ \A r \in store.jobs :
        /\ \E s \in store.job_signals : s.job_id = r.id
        /\ \E t \in store.job_tools : t.job_id = r.id

\* C22: in every committed store reached from the empty store by imports
\* and delete_company_data calls, every job_signals row and every job_tools
\* row references a job row that exists, and every job row has at least one
\* job_signals row and at least one job_tools row.
C22_ReferentialIntegrity == ReferentialIntegrity(db)

\* A company has been wiped while another company's postings stayed, and
\* the wiped company has been imported again.
C22_Witness ==
    /\ pc = "done"
    /\ run.via = "main" /\ run.reimport /\ ~run.dry_run
    /\ run.deleted >= 1
    /\ run.inserted >= 1
    /\ \E r \in db.jobs : r.company_name_normalized # Normalize(run.company)
    /\ \E r \in db.jobs : r.company_name_normalized = Normalize(run.company)
    /\ db.job_signals # {} /\ db.job_tools # {}

\* The job rows of a store that do not belong to a company, and the child
\* rows of those jobs.
JobsOfOthers(store, normalized) ==
    {r \in store.jobs : r.company_name_normalized # normalized}

ChildRowsOfOthers(store, table, normalized) ==
    {c \in table : \E r \in JobsOfOthers(store, normalized) : r.id = c.job_id}

C23_Step ==
    IsWipeStep =>
        LET normalized == Normalize(run'.company)
        IN  /\ JobsOfOthers(db', normalized) = JobsOfOthers(db, normalized)
            /\ ChildRowsOfOthers(db', db'.job_signals, normalized)
                 = ChildRowsOfOthers(db, db.job_signals, normalized)
            /\ ChildRowsOfOthers(db', db'.job_tools, normalized)
                 = ChildRowsOfOthers(db, db.job_tools, normalized)
            /\ db'.companies = db.companies

====
